---- MODULE Spec2Model ----
(***************************************************************************)
(* Model of the Snowflake connection pool of src/docs/snowflake.py         *)
(* (class SnowflakeConnectionPool): the idle queue, the counter            *)
(* _active_connections, the lock, the creation-time table, the worker      *)
(* threads running `with pool.get_connection()` and a caller of            *)
(* close_all; and of the two query builders (class QueryBuilder of         *)
(* src/docs/lambda_function.py and the class of the same name of           *)
(* src/docs/snowflake.py), pure functions of their arguments, with strings *)
(* as sequences of characters; of one list request of SnowflakeService     *)
(* (get_opportunities, get_budget); and of the module-level pool of        *)
(* get_connection_pool / close_connection_pool.                            *)
(*                                                                         *)
(* A step of a thread is one access to what the threads share: a queue     *)
(* operation, one validation of a connection, a section under the lock, a  *)
(* read of the counter.  Validation and queue operations are made without  *)
(* the lock, so steps of other threads come between them.  A connection    *)
(* object that is no longer referenced is freed and its slot (its address) *)
(* can be taken by a later connection, as id() values are in CPython.      *)
(***************************************************************************)
EXTENDS Integers, Sequences, FiniteSets, TLC

\* ------------------------------------------------------------------ bounds
NumThreads == 2         \* worker threads using the pool
MaxObjects == 3         \* connections the warehouse serves at one time
MaxPoolSize == 2        \* largest max_connections a pool is constructed with
max_idle_time == 1      \* SnowflakeConnectionPool(max_idle_time=...), in ticks
MaxProbeRun == 2        \* successive SELECT 1 validations of a connection told apart

Threads == 1..NumThreads
Conns == 1..MaxObjects
None == 0               \* Python's None (no connection / lock not held)
NoTime == -1            \* no entry in _connection_times

\* Times since a stamp are told apart up to the first one above max_idle_time: the
\* code only compares them with max_idle_time.
Older(age) ==
    IF age = NoTime THEN NoTime
    ELSE IF age < max_idle_time + 1 THEN age + 1 ELSE max_idle_time + 1

VARIABLES
    max_connections,    \* self.max_connections, the constructor's argument
    pool,               \* self._pool: FIFO queue of idle connections
    active_connections, \* self._active_connections
    lock,               \* self._lock: the thread holding it, or None
    connection_times,   \* self._connection_times: per id, the time since the stamp
    pc,                 \* where each worker thread is in get_connection
    connection,         \* the local variable `connection` of get_connection
    discarded,          \* this call dequeued an idle connection that failed validation
    conn_status,        \* "unborn", "open", "broken", "closed"
    conn_id,            \* id(connection)
    conn_age,           \* the time since the connection was created
    conn_probes,        \* how many validations of the connection in a row ran SELECT 1
    admin_pc,           \* where the caller of close_all is
    ca_clean,           \* close_all is running or has just returned, and no acquire
                        \* or release has run since it started
    closed_now,         \* the connections close() was called on in the latest step
    raised,             \* the error the latest step raised to the caller of acquire
    in_flight,          \* per thread, the exception that leaves get_connection once
                        \* its finally block has run
    stats_counter,      \* get_stats under way: <<the counter as it read it>>, else <<>>
    stats               \* what get_stats() returned, when the latest step was that call

\* One call of the query builder: its arguments and what it returned.
VARIABLES
    builder,            \* the module whose QueryBuilder is called: "lambda_function"
                        \* or "snowflake"
    called,             \* the method called: "none", "build_filter_clause",
                        \* "build_search_clause", "quote_identifier" and
                        \* "quote_identifier_again"
    filters,            \* the argument `filters` (a JSON value)
    keywords,           \* the argument `keywords` (a JSON value)
    column_names,       \* the argument `column_names`: a list of names, or null
    identifier_arg,     \* the argument `identifier` of quote_identifier
    clause,             \* the returned string, or the exception raised
    conditions,         \* the local list of conditions when the call ended
    returned            \* the call has returned (or raised)

query_vars == <<builder, called, filters, keywords, column_names, identifier_arg,
                clause, conditions, returned>>

\* One list request of SnowflakeService (get_opportunities, get_budget).
VARIABLES
    request,            \* which module's service handles it, and which method
    page,               \* the argument `page`
    page_size,          \* the argument `page_size`
    table_columns,      \* how many columns the catalog lists for the table
    table_rows,         \* how many rows of the table match the request
    at,                 \* the query the request is about to run, or "returned"
    executed,           \* the calls of execute_query so far, in order
    compiled,           \* the filter and search clauses have been built
    result              \* what the caller is handed

service_vars == <<request, page, page_size, table_columns, table_rows, at, executed,
                  compiled, result>>

\* The module-level pool of get_connection_pool / close_connection_pool.
VARIABLES
    connection_pool,    \* the global _connection_pool: None or an instance
    instances,          \* how many SnowflakeConnectionPool objects were constructed
    gp_pc,              \* where each caller of get_connection_pool or
                        \* close_connection_pool is
    gp_returned,        \* the instances this caller's calls returned since the teardown
    gp_raised,          \* what this caller's latest close_connection_pool raised
    torn_down           \* the instances close_all was applied to by a teardown

singleton_vars == <<connection_pool, instances, gp_pc, gp_returned, gp_raised,
                    torn_down>>

vars == <<max_connections, pool, active_connections, lock, connection_times, pc,
          connection, discarded, conn_status, conn_id, conn_age, conn_probes,
          admin_pc, ca_clean, closed_now, raised, in_flight, stats_counter, stats,
          query_vars,
          service_vars, singleton_vars>>

conn_vars == <<conn_status, conn_id, conn_age, conn_probes>>

\* ----------------------------------------------------------------- helpers
Range(q) == {q[i] : i \in 1..Len(q)}

\* The threads inside their with-block, and the connections handed to them.
Borrowers == {t \in Threads : pc[t] = "body"}
Lent == {connection[t] : t \in Borrowers}

\* connection.is_closed()
is_closed(status) == status = "closed"

\* cursor.execute("SELECT 1") raises: the server dropped the connection.
SelectOneFails(status) == status = "broken"

\* The age check of _is_connection_valid fails: the connection has a creation time
\* and it is more than max_idle_time back.
Expired(c) == connection_times[c] # NoTime /\ connection_times[c] > max_idle_time

\* `connection_id % 10 == 0`: this validation runs the SELECT 1 round trip.
id_selects_probe(i) == i % 10 = 0

\* _is_connection_valid gets as far as the round trip and runs it.
RunsSelectOne(c, status) ==
    /\ ~Expired(c)
    /\ ~is_closed(status)
    /\ id_selects_probe(conn_id[c])

\* _is_connection_valid, for a connection whose status is `status`
ConnectionValidWith(c, status) ==
    IF Expired(c)
    THEN FALSE
    ELSE IF is_closed(status)
    THEN FALSE
    ELSE IF id_selects_probe(conn_id[c]) /\ SelectOneFails(status)
    THEN FALSE
    ELSE TRUE

\* The round trips in a row, after one more validation of connection c: a
\* validation that fails a cheap check leaves the run as it is, one that passes them
\* without the round trip ends it.
ProbesAfter(probes, c, status) ==
    IF Expired(c) \/ is_closed(status)
    THEN probes
    ELSE IF RunsSelectOne(c, status)
    THEN [probes EXCEPT ![c] = IF @ < MaxProbeRun THEN @ + 1 ELSE MaxProbeRun]
    ELSE [probes EXCEPT ![c] = 0]

is_connection_valid(c) == ConnectionValidWith(c, conn_status[c])

\* A validation made without the lock reads _connection_times twice, and the
\* thread's step in between is to have found a stamp (`connection_id in
\* self._connection_times`); from a position of `start` it goes to `reading` then.
\* The validation comes to its result in this step: it finds no stamp, or it found
\* one a step ago.
ValidationEnds(t, start, reading) ==
    \/ pc[t] \in start /\ connection_times[connection[t]] = NoTime
    \/ pc[t] = reading

\* The result of the validation thread t makes of its `connection`.  When the stamp
\* found a step ago was removed since, self._connection_times[connection_id] raises
\* KeyError, which _is_connection_valid catches: it returns False.
ValidAt(t, reading) ==
    /\ ~(pc[t] = reading /\ connection_times[connection[t]] = NoTime)
    /\ is_connection_valid(connection[t])

\* The round trips in a row of the connection after that validation.
ProbesAt(t, reading) ==
    IF pc[t] = reading /\ connection_times[connection[t]] = NoTime
    THEN conn_probes
    ELSE ProbesAfter(conn_probes, connection[t], conn_status[connection[t]])

\* connection.close().  Every caller swallows what it raises; a call that raises may
\* leave the connection as it was.
close_outcomes(status) == {"closed", status}

\* The last reference to connection c is dropped: the object is freed and its slot
\* is free again.  A stamp left for it in _connection_times stays, and is never
\* read before a new connection at that address overwrites it.
Freed(field, c, blank) == [field EXCEPT ![c] = blank]
Stale(times, c) == [times EXCEPT ![c] = IF @ = NoTime THEN NoTime
                                             ELSE max_idle_time + 1]

\* A get that leaves the connection on the queue (C3 is checked against it).
queue_peek(q) == q
\* What self._pool.get_nowait() / get(timeout=60) leaves on the queue: the head is
\* taken off.
queue_get(q) == Tail(q)

\* The connections created and not yet closed.
OpenConns == {c \in Conns : conn_status[c] \in {"open", "broken"}}

\* No acquire and no release is under way: every thread is outside get_connection
\* or inside its with-block.
Quiescent == \A t \in Threads : pc[t] \in {"idle", "body"}

\* get_stats(), the counter being what the call read from self._active_connections
\* and the queue size what qsize() returns now
get_stats(counter) ==
    [max_connections |-> max_connections,
     active_connections |-> counter,
     pooled_connections |-> Len(pool),
     max_idle_time |-> max_idle_time]

NoStats == [max_connections |-> 0, active_connections |-> 0,
            pooled_connections |-> 0, max_idle_time |-> 0]

\* -------------------------------------------------------------------- Init
\* JSON null / Python's None as an argument or a result.
Null == [t |-> "null"]

\* No call of the query builder is made.
NoQuery ==
    /\ builder = "none"
    /\ called = "none"
    /\ filters = Null
    /\ keywords = Null
    /\ column_names = Null
    /\ identifier_arg = Null
    /\ clause = Null
    /\ conditions = <<>>
    /\ returned = FALSE

\* No list request is made.
NoRequest ==
    /\ request = Null
    /\ page = 1
    /\ page_size = 1
    /\ table_columns = 0
    /\ table_rows = 0
    /\ at = "none"
    /\ executed = <<>>
    /\ compiled = FALSE
    /\ result = Null

\* The module-level pool is not used.
NoSingleton ==
    /\ connection_pool = None
    /\ instances = 0
    /\ gp_pc = [t \in Threads |-> "idle"]
    /\ gp_returned = [t \in Threads |-> {}]
    /\ gp_raised = [t \in Threads |-> "none"]
    /\ torn_down = {}

Init ==
    /\ NoQuery
    /\ NoRequest
    /\ NoSingleton
    /\ max_connections \in 1..MaxPoolSize
    /\ pool = <<>>
    /\ active_connections = 0
    /\ lock = None
    /\ connection_times = [c \in Conns |-> NoTime]
    /\ pc = [t \in Threads |-> "idle"]
    /\ connection = [t \in Threads |-> None]
    /\ discarded = [t \in Threads |-> FALSE]
    /\ conn_status = [c \in Conns |-> "unborn"]
    /\ conn_id = [c \in Conns |-> 0]
    /\ conn_age = [c \in Conns |-> NoTime]
    /\ conn_probes = [c \in Conns |-> 0]
    /\ admin_pc = "idle"
    /\ ca_clean = FALSE
    /\ closed_now = {}
    /\ raised = "none"
    /\ in_flight = [t \in Threads |-> "none"]
    /\ stats_counter = <<>>
    /\ stats = NoStats

\* ------------------------------------------------- get_connection: acquire
\* A test that lets one connection too many be created (C1 is checked against it).
may_create_inclusive == active_connections <= max_connections
\* `self._active_connections < self.max_connections`, read under the lock
may_create == active_connections < max_connections

\* The slots a new connection object can take while the objects in `held` are
\* still referenced.
FreeSlots(held) == {c \in Conns : conn_status[c] = "unborn" /\ c \notin held}
NewSlot(held) == CHOOSE c \in FreeSlots(held) : \A d \in FreeSlots(held) : c <= d

\* _create_connection() succeeding for thread t: the new connection n is stamped
\* with the current time and becomes the thread's `connection`.
CreateFor(t, n, status, ids, ages, probes, times) ==
    \* id(connection): an address; whether it is a multiple of 10 is up to the
    \* allocator
    /\ \E i \in {10 * n, 10 * n + 5} : conn_id' = [ids EXCEPT ![n] = i]
    /\ conn_probes' = [probes EXCEPT ![n] = 0]
    /\ conn_status' = [status EXCEPT ![n] = "open"]
    /\ conn_age' = [ages EXCEPT ![n] = 0]
    /\ connection_times' = [times EXCEPT ![n] = 0]
    /\ connection' = [connection EXCEPT ![t] = n]

\* What every step of a worker thread in get_connection leaves behind: the error it
\* raised to the caller (err) and the exception it leaves propagating (pending) are
\* recorded, a close_all that is running or has just returned is no longer
\* undisturbed, the callers of close_all and get_stats stand still.
Overlap(err, pending) ==
    /\ ca_clean' = FALSE
    /\ raised' = err
    /\ in_flight' = pending
    /\ stats' = NoStats
    /\ UNCHANGED <<max_connections, admin_pc, stats_counter, query_vars, service_vars,
                   singleton_vars>>

\* Entry, the queue being empty: get_nowait raises Empty, the thread goes for the lock.
EnterEmpty(t) ==
    /\ Overlap("none", in_flight)
    /\ pc[t] = "idle"
    /\ pool = <<>>
    /\ pc' = [pc EXCEPT ![t] = "lock"]
    /\ discarded' = [discarded EXCEPT ![t] = FALSE]
    /\ closed_now' = {}
    /\ UNCHANGED <<pool, active_connections, lock, connection_times, connection,
                   conn_vars>>

\* Entry, the queue holding a connection: get_nowait takes it off; it is validated
\* in the thread's next step.
EnterDequeue(t) ==
    /\ Overlap("none", in_flight)
    /\ pc[t] = "idle"
    /\ pool # <<>>
    /\ pool' = queue_get(pool)
    /\ connection' = [connection EXCEPT ![t] = Head(pool)]
    /\ pc' = [pc EXCEPT ![t] = "validate"]
    /\ discarded' = [discarded EXCEPT ![t] = FALSE]
    /\ closed_now' = {}
    /\ UNCHANGED <<active_connections, lock, connection_times, conn_vars>>

\* The first read of a validation made without the lock finds a stamp for the
\* connection: on entry for the dequeued connection; in the release step, which the
\* end of the with-block or a failed replacement starts, for the connection to give
\* back.
FindStamp(t) ==
    /\ Overlap("none", in_flight)
    /\ pc[t] \in {"validate", "body", "finally"}
    /\ connection_times[connection[t]] # NoTime
    /\ pc' = [pc EXCEPT ![t] = IF pc[t] = "validate" THEN "validate_age"
                                 ELSE "finally_age"]
    /\ closed_now' = {}
    /\ UNCHANGED <<pool, active_connections, lock, connection_times, connection,
                   discarded, conn_vars>>

\* The dequeued connection passes validation: it is yielded.
EnterPooledValid(t) ==
    /\ Overlap("none", in_flight)
    /\ ValidationEnds(t, {"validate"}, "validate_age")
    /\ ValidAt(t, "validate_age")
    /\ pc' = [pc EXCEPT ![t] = "body"]
    /\ closed_now' = {}
    /\ conn_probes' = ProbesAt(t, "validate_age")
    /\ UNCHANGED <<pool, active_connections, lock, connection_times, connection,
                   discarded, conn_status, conn_id, conn_age>>

\* The dequeued connection fails validation: it is closed and dropped (the counter
\* is left alone), the thread goes for the lock.
EnterPooledInvalid(t) ==
    /\ Overlap("none", in_flight)
    /\ ValidationEnds(t, {"validate"}, "validate_age")
    /\ ~ValidAt(t, "validate_age")
    /\ closed_now' = {connection[t]}
    /\ conn_status' = Freed(conn_status, connection[t], "unborn")
    /\ conn_id' = Freed(conn_id, connection[t], 0)
    /\ conn_age' = Freed(conn_age, connection[t], NoTime)
    /\ conn_probes' = Freed(conn_probes, connection[t], 0)
    /\ connection_times' = Stale(connection_times, connection[t])
    /\ connection' = [connection EXCEPT ![t] = None]
    /\ pc' = [pc EXCEPT ![t] = "lock"]
    /\ discarded' = [discarded EXCEPT ![t] = TRUE]
    /\ UNCHANGED <<pool, active_connections, lock>>

\* Under the lock, below the limit: a connection is created, counted and yielded.
LockCreate(t) ==
    /\ Overlap("none", in_flight)
    /\ pc[t] = "lock"
    /\ lock = None
    /\ may_create
    /\ FreeSlots({}) # {}
    /\ CreateFor(t, NewSlot({}), conn_status, conn_id, conn_age, conn_probes,
                 connection_times)
    /\ active_connections' = active_connections + 1
    /\ pc' = [pc EXCEPT ![t] = "body"]
    /\ discarded' = [discarded EXCEPT ![t] = FALSE]
    /\ closed_now' = {}
    /\ UNCHANGED <<pool, lock>>

\* Under the lock, below the limit, _create_connection raises: the error reaches the
\* caller, nothing was counted, there is nothing to release.
LockCreateFails(t) ==
    /\ Overlap("connect_error", in_flight)
    /\ pc[t] = "lock"
    /\ lock = None
    /\ may_create
    /\ pc' = [pc EXCEPT ![t] = "idle"]
    /\ discarded' = [discarded EXCEPT ![t] = FALSE]
    /\ closed_now' = {}
    /\ UNCHANGED <<pool, active_connections, lock, connection_times, connection,
                   conn_vars>>

\* Under the lock, at the limit: the thread blocks in self._pool.get(timeout=60),
\* still holding the lock.
LockWait(t) ==
    /\ Overlap("none", in_flight)
    /\ pc[t] = "lock"
    /\ lock = None
    /\ ~may_create
    /\ lock' = t
    /\ pc' = [pc EXCEPT ![t] = "wait"]
    /\ closed_now' = {}
    /\ UNCHANGED <<pool, active_connections, connection_times, connection, discarded,
                   conn_vars>>

\* The blocked get returns a valid connection: it is yielded.  The thread holds the
\* lock from the get to the validation, and every write of _connection_times is made
\* under the lock.
WaitGetValid(t) ==
    /\ Overlap("none", in_flight)
    /\ pc[t] = "wait"
    /\ pool # <<>>
    /\ is_connection_valid(Head(pool))
    /\ pool' = queue_get(pool)
    /\ connection' = [connection EXCEPT ![t] = Head(pool)]
    /\ lock' = None
    /\ pc' = [pc EXCEPT ![t] = "body"]
    /\ discarded' = [discarded EXCEPT ![t] = FALSE]
    /\ closed_now' = {}
    /\ conn_probes' = ProbesAfter(conn_probes, Head(pool), conn_status[Head(pool)])
    /\ UNCHANGED <<active_connections, connection_times, conn_status, conn_id, conn_age>>

\* The blocked get returns an invalid connection: it is closed and replaced by a new
\* one, the counter unchanged.  The old object is referenced until the new one is
\* assigned, so the new one is at another address.
WaitGetReplace(t) ==
    /\ Overlap("none", in_flight)
    /\ pc[t] = "wait"
    /\ pool # <<>>
    /\ ~is_connection_valid(Head(pool))
    /\ FreeSlots({Head(pool)}) # {}
    /\ pool' = queue_get(pool)
    /\ closed_now' = {Head(pool)}
    /\ CreateFor(t, NewSlot({Head(pool)}), Freed(conn_status, Head(pool), "unborn"),
                 Freed(conn_id, Head(pool), 0), Freed(conn_age, Head(pool), NoTime),
                 Freed(conn_probes, Head(pool), 0), Stale(connection_times, Head(pool)))
    /\ lock' = None
    /\ pc' = [pc EXCEPT ![t] = "body"]
    /\ discarded' = [discarded EXCEPT ![t] = FALSE]
    /\ UNCHANGED <<active_connections>>

\* The blocked get returns an invalid connection and creating its replacement
\* raises: close() was called on the dequeued connection, `connection` is still that
\* one, the exception leaves the locked section and the finally block is to run on
\* the connection before the exception reaches the caller.
WaitGetReplaceFails(t) ==
    /\ Overlap("none", [in_flight EXCEPT ![t] = "connect_error"])
    /\ pc[t] = "wait"
    /\ pool # <<>>
    /\ ~is_connection_valid(Head(pool))
    /\ pool' = queue_get(pool)
    /\ connection' = [connection EXCEPT ![t] = Head(pool)]
    /\ closed_now' = {Head(pool)}
    /\ \E st \in close_outcomes(conn_status[Head(pool)]) :
           conn_status' = [conn_status EXCEPT ![Head(pool)] = st]
    /\ conn_probes' = ProbesAfter(conn_probes, Head(pool), conn_status[Head(pool)])
    /\ lock' = None
    /\ pc' = [pc EXCEPT ![t] = "finally"]
    /\ discarded' = [discarded EXCEPT ![t] = FALSE]
    /\ UNCHANGED <<active_connections, connection_times, conn_id, conn_age>>

\* A timeout that also gives a slot of the counter back (C8 is checked against it).
WaitTimeoutGivesUpSlot(t) ==
    /\ Overlap("exhausted", in_flight)
    /\ pc[t] = "wait"
    /\ pool = <<>>
    /\ lock' = None
    /\ pc' = [pc EXCEPT ![t] = "idle"]
    /\ discarded' = [discarded EXCEPT ![t] = FALSE]
    /\ closed_now' = {}
    /\ active_connections' = active_connections - 1
    /\ UNCHANGED <<pool, connection_times, connection, conn_vars>>
\* The blocked get times out on an empty queue: the pool-exhausted error is raised.
WaitTimeout(t) ==
    /\ Overlap("exhausted", in_flight)
    /\ pc[t] = "wait"
    /\ pool = <<>>
    /\ lock' = None
    /\ pc' = [pc EXCEPT ![t] = "idle"]
    /\ discarded' = [discarded EXCEPT ![t] = FALSE]
    /\ closed_now' = {}
    /\ UNCHANGED <<pool, active_connections, connection_times, connection, conn_vars>>

\* ------------------------------------------------- get_connection: release
\* The release step (the finally block), which runs when the with-block ends,
\* normally or by an exception of its body, and when the replacement of a dequeued
\* connection could not be created: `connection` is validated.  A valid one is to be
\* put on the queue in the thread's next step; on an invalid one close() is called
\* and the thread goes on to take the lock.
ReleaseValidate(t) ==
    /\ Overlap("none", in_flight)
    /\ ValidationEnds(t, {"body", "finally"}, "finally_age")
    /\ conn_probes' = ProbesAt(t, "finally_age")
    /\ IF ValidAt(t, "finally_age")
       THEN /\ pc' = [pc EXCEPT ![t] = "put"]
            /\ closed_now' = {}
            /\ UNCHANGED conn_status
       ELSE /\ pc' = [pc EXCEPT ![t] = "rel_lock"]
            /\ closed_now' = {connection[t]}
            /\ \E st \in close_outcomes(conn_status[connection[t]]) :
                   conn_status' = [conn_status EXCEPT ![connection[t]] = st]
    /\ UNCHANGED <<pool, active_connections, lock, connection_times, connection,
                   discarded, conn_id, conn_age>>

\* The second half of the release of a valid connection: put_nowait puts it on the
\* queue, or raises queue.Full; the except of the release step swallows that, and
\* the connection is dropped.
ReleasePut(t) ==
    /\ Overlap(in_flight[t], [in_flight EXCEPT ![t] = "none"])
    /\ pc[t] = "put"
    /\ IF Len(pool) < max_connections
       THEN /\ pool' = Append(pool, connection[t])
            /\ UNCHANGED <<conn_vars, connection_times>>
       ELSE /\ pool' = pool
            /\ conn_status' = Freed(conn_status, connection[t], "unborn")
            /\ conn_id' = Freed(conn_id, connection[t], 0)
            /\ conn_age' = Freed(conn_age, connection[t], NoTime)
            /\ conn_probes' = Freed(conn_probes, connection[t], 0)
            /\ connection_times' = Stale(connection_times, connection[t])
    /\ pc' = [pc EXCEPT ![t] = "idle"]
    /\ connection' = [connection EXCEPT ![t] = None]
    /\ closed_now' = {}
    /\ UNCHANGED <<active_connections, lock, discarded>>

\* Release of an invalid connection, under the lock: the counter goes down and the
\* connection's creation time is forgotten.
ReleaseLocked(t) ==
    /\ Overlap(in_flight[t], [in_flight EXCEPT ![t] = "none"])
    /\ pc[t] = "rel_lock"
    /\ lock = None
    /\ active_connections' = active_connections - 1
    /\ connection_times' = [connection_times EXCEPT ![connection[t]] = NoTime]
    /\ pc' = [pc EXCEPT ![t] = "idle"]
    /\ connection' = [connection EXCEPT ![t] = None]
    /\ conn_status' = Freed(conn_status, connection[t], "unborn")
    /\ conn_id' = Freed(conn_id, connection[t], 0)
    /\ conn_age' = Freed(conn_age, connection[t], NoTime)
    /\ conn_probes' = Freed(conn_probes, connection[t], 0)
    /\ closed_now' = {}
    /\ UNCHANGED <<pool, lock, discarded>>

\* ---------------------------------------------------------------- close_all
\* A drain loop that the first raising close() ends (C10 is checked against it).
drain_stops_at_failure(close_raised) == ~close_raised
\* The drain loop goes on after a close(), whether it raised or not: the exception
\* is caught and logged inside the loop.
drain_goes_on(close_raised) == TRUE

\* close_all is called.
CloseAllBegin ==
    /\ admin_pc = "idle"
    /\ admin_pc' = "drain"
    /\ ca_clean' = (\A t \in Threads : pc[t] \in {"idle", "body"})
    /\ closed_now' = {}
    /\ raised' = "none"
    /\ stats' = NoStats
    /\ UNCHANGED <<max_connections, pool, active_connections, lock, connection_times, pc,
                   connection, discarded, conn_vars, stats_counter, in_flight,
                   query_vars, service_vars, singleton_vars>>

\* One turn of the drain loop, which takes no lock: the head of the queue is taken
\* off, close() is called on it and it is dropped.
CloseAllDrain ==
    /\ admin_pc = "drain"
    /\ pool # <<>>
    /\ pool' = queue_get(pool)
    /\ closed_now' = {Head(pool)}
    /\ conn_status' = Freed(conn_status, Head(pool), "unborn")
    /\ conn_id' = Freed(conn_id, Head(pool), 0)
    /\ conn_age' = Freed(conn_age, Head(pool), NoTime)
    /\ conn_probes' = Freed(conn_probes, Head(pool), 0)
    /\ connection_times' = Stale(connection_times, Head(pool))
    /\ \E close_raised \in BOOLEAN :
           admin_pc' = IF drain_goes_on(close_raised) THEN "drain" ELSE "ca_lock"
    /\ raised' = "none"
    /\ stats' = NoStats
    /\ UNCHANGED <<max_connections, active_connections, lock, pc, connection, discarded,
                   ca_clean, stats_counter, in_flight, query_vars, service_vars,
                   singleton_vars>>

\* The drain loop finds the queue empty and ends.
CloseAllDrained ==
    /\ admin_pc = "drain"
    /\ pool = <<>>
    /\ admin_pc' = "ca_lock"
    /\ closed_now' = {}
    /\ raised' = "none"
    /\ stats' = NoStats
    /\ UNCHANGED <<max_connections, pool, active_connections, lock, connection_times, pc,
                   connection, discarded, conn_vars, ca_clean, stats_counter, in_flight,
                   query_vars, service_vars, singleton_vars>>

\* Under the lock: the counter is zeroed, the creation times are cleared, and
\* close_all returns.
CloseAllClear ==
    /\ admin_pc = "ca_lock"
    /\ lock = None
    /\ active_connections' = 0
    /\ connection_times' = [c \in Conns |-> NoTime]
    /\ admin_pc' = "idle"
    /\ closed_now' = {}
    /\ raised' = "none"
    /\ stats' = NoStats
    /\ UNCHANGED <<max_connections, pool, lock, pc, connection, discarded, conn_vars,
                   ca_clean, stats_counter, in_flight, query_vars, service_vars,
                   singleton_vars>>

\* ---------------------------------------------------------------- get_stats
\* get_stats is called and reads self._active_connections; it takes no lock.
GetStatsReadCounter ==
    /\ stats_counter = <<>>
    /\ stats_counter' = <<active_connections>>
    /\ stats' = NoStats
    /\ closed_now' = {}
    /\ raised' = "none"
    /\ UNCHANGED <<max_connections, pool, active_connections, lock, connection_times, pc,
                   connection, discarded, conn_vars, admin_pc, ca_clean, in_flight,
                   query_vars, service_vars, singleton_vars>>

\* get_stats reads self._pool.qsize() and returns.
GetStats ==
    /\ stats_counter # <<>>
    /\ stats' = get_stats(stats_counter[1])
    /\ stats_counter' = <<>>
    /\ closed_now' = {}
    /\ raised' = "none"
    /\ UNCHANGED <<max_connections, pool, active_connections, lock, connection_times, pc,
                   connection, discarded, conn_vars, admin_pc, ca_clean, in_flight,
                   query_vars, service_vars, singleton_vars>>

\* -------------------------------------------------------------- environment
\* Time passes: every connection and every stamp gets older.
Tick ==
    /\ connection_times' = [c \in Conns |-> Older(connection_times[c])]
    /\ conn_age' = [c \in Conns |-> Older(conn_age[c])]
    /\ raised' = "none"
    /\ stats' = NoStats
    /\ closed_now' = {}
    /\ UNCHANGED <<max_connections, pool, active_connections, lock, pc, connection,
                   discarded, conn_status, conn_id, conn_probes, admin_pc, ca_clean,
                   in_flight, stats_counter, query_vars, service_vars, singleton_vars>>

\* The server drops an open connection: statements on it fail from now on.
Break(c) ==
    /\ conn_status[c] = "open"
    /\ conn_status' = [conn_status EXCEPT ![c] = "broken"]
    /\ raised' = "none"
    /\ stats' = NoStats
    /\ closed_now' = {}
    /\ UNCHANGED <<max_connections, pool, active_connections, lock, connection_times,
                   pc, connection, discarded, conn_id, conn_age, conn_probes, admin_pc,
                   ca_clean, in_flight, stats_counter, query_vars, service_vars,
                   singleton_vars>>

\* ------------------------------------------------------------ specifications
\* Every operation of the pool, by any thread at any time.
Next ==
    \/ \E t \in Threads : EnterEmpty(t)
    \/ \E t \in Threads : EnterDequeue(t)
    \/ \E t \in Threads : FindStamp(t)
    \/ \E t \in Threads : EnterPooledValid(t)
    \/ \E t \in Threads : EnterPooledInvalid(t)
    \/ \E t \in Threads : LockCreate(t)
    \/ \E t \in Threads : LockCreateFails(t)
    \/ \E t \in Threads : LockWait(t)
    \/ \E t \in Threads : WaitGetValid(t)
    \/ \E t \in Threads : WaitGetReplace(t)
    \/ \E t \in Threads : WaitGetReplaceFails(t)
    \/ \E t \in Threads : WaitTimeout(t)
    \/ \E t \in Threads : ReleaseValidate(t)
    \/ \E t \in Threads : ReleasePut(t)
    \/ \E t \in Threads : ReleaseLocked(t)
    \/ CloseAllBegin
    \/ CloseAllDrain
    \/ CloseAllDrained
    \/ CloseAllClear
    \/ GetStatsReadCounter
    \/ GetStats
    \/ Tick
    \/ \E c \in Conns : Break(c)

Spec == Init /\ [][Next]_vars

\* The pool used through get_connection and close_all.  get_stats, which writes
\* nothing, is left out.
NextPool ==
    \/ \E t \in Threads : EnterEmpty(t)
    \/ \E t \in Threads : EnterDequeue(t)
    \/ \E t \in Threads : FindStamp(t)
    \/ \E t \in Threads : EnterPooledValid(t)
    \/ \E t \in Threads : EnterPooledInvalid(t)
    \/ \E t \in Threads : LockCreate(t)
    \/ \E t \in Threads : LockCreateFails(t)
    \/ \E t \in Threads : LockWait(t)
    \/ \E t \in Threads : WaitGetValid(t)
    \/ \E t \in Threads : WaitGetReplace(t)
    \/ \E t \in Threads : WaitGetReplaceFails(t)
    \/ \E t \in Threads : WaitTimeout(t)
    \/ \E t \in Threads : ReleaseValidate(t)
    \/ \E t \in Threads : ReleasePut(t)
    \/ \E t \in Threads : ReleaseLocked(t)
    \/ CloseAllBegin
    \/ CloseAllDrain
    \/ CloseAllDrained
    \/ CloseAllClear
    \/ Tick
    \/ \E c \in Conns : Break(c)

SpecPool == Init /\ [][NextPool]_vars

\* The pool used through get_connection and get_stats: close_all is never called.
NextAcqRel ==
    \/ \E t \in Threads : EnterEmpty(t)
    \/ \E t \in Threads : EnterDequeue(t)
    \/ \E t \in Threads : FindStamp(t)
    \/ \E t \in Threads : EnterPooledValid(t)
    \/ \E t \in Threads : EnterPooledInvalid(t)
    \/ \E t \in Threads : LockCreate(t)
    \/ \E t \in Threads : LockCreateFails(t)
    \/ \E t \in Threads : LockWait(t)
    \/ \E t \in Threads : WaitGetValid(t)
    \/ \E t \in Threads : WaitGetReplace(t)
    \/ \E t \in Threads : WaitGetReplaceFails(t)
    \/ \E t \in Threads : WaitTimeout(t)
    \/ \E t \in Threads : ReleaseValidate(t)
    \/ \E t \in Threads : ReleasePut(t)
    \/ \E t \in Threads : ReleaseLocked(t)
    \/ GetStatsReadCounter
    \/ GetStats
    \/ Tick
    \/ \E c \in Conns : Break(c)

SpecAcqRel == Init /\ [][NextAcqRel]_vars

\* =========================================================== query builder
\* ------------------------------------------------------------------ strings
\* A Python str is the sequence of its characters; a character is a one-letter
\* TLA+ string.
RECURSIVE Concat(_)
\* "".join(parts)
Concat(parts) == IF parts = <<>> THEN <<>> ELSE Head(parts) \o Concat(Tail(parts))

RECURSIVE Join(_, _)
\* sep.join(parts)
Join(sep, parts) ==
    IF parts = <<>> THEN <<>>
    ELSE IF Len(parts) = 1 THEN parts[1]
    ELSE parts[1] \o sep \o Join(sep, Tail(parts))

\* s.startswith(p), s.endswith(p), `sub in s`
startswith(s, p) == Len(p) <= Len(s) /\ SubSeq(s, 1, Len(p)) = p
endswith(s, p) == Len(p) <= Len(s) /\ SubSeq(s, Len(s) - Len(p) + 1, Len(s)) = p
contains(s, sub) == \E i \in 1..(Len(s) - Len(sub) + 1) : SubSeq(s, i, i + Len(sub) - 1) = sub

\* s[:-3]
drop_last3(s) == SubSeq(s, 1, Len(s) - 3)

\* s.lower(), on ASCII letters
lower_char(ch) ==
    LET upper_case ==
            <<"A", "B", "C", "D", "E", "F", "G", "H", "I", "J", "K", "L", "M", "N", "O",
              "P", "Q", "R", "S", "T", "U", "V", "W", "X", "Y", "Z">>
        lower_case ==
            <<"a", "b", "c", "d", "e", "f", "g", "h", "i", "j", "k", "l", "m", "n", "o",
              "p", "q", "r", "s", "t", "u", "v", "w", "x", "y", "z">>
    IN  IF \E i \in 1..26 : upper_case[i] = ch
        THEN lower_case[CHOOSE i \in 1..26 : upper_case[i] = ch]
        ELSE ch
lower(s) == [i \in 1..Len(s) |-> lower_char(s[i])]

\* s.strip(): leading and trailing whitespace goes.  ch.isspace(), for the
\* characters a string of the model can hold: blank, tab, newline, carriage return and
\* form feed.
is_space(ch) == ch \in {" ", "\t", "\n", "\r", "\f"}
RECURSIVE lstrip(_)
lstrip(s) == IF s # <<>> /\ is_space(Head(s)) THEN lstrip(Tail(s)) ELSE s
RECURSIVE rstrip(_)
rstrip(s) ==
    IF s # <<>> /\ is_space(s[Len(s)]) THEN rstrip(SubSeq(s, 1, Len(s) - 1)) ELSE s
strip(s) == rstrip(lstrip(s))

\* s.split(","): the pieces between the commas, empty ones included
RECURSIVE split_from(_, _, _)
split_from(s, i, piece) ==
    IF i > Len(s) THEN <<piece>>
    ELSE IF s[i] = "," THEN <<piece>> \o split_from(s, i + 1, <<>>)
    ELSE split_from(s, i + 1, Append(piece, s[i]))
split(s) == split_from(s, 1, <<>>)

\* s.replace("'", "''")
RECURSIVE replace_quote(_)
replace_quote(s) ==
    IF s = <<>> THEN <<>>
    ELSE (IF Head(s) = "'" THEN <<"'", "'">> ELSE <<Head(s)>>) \o replace_quote(Tail(s))

\* str(n) of an int
RECURSIVE decimal(_)
decimal(n) ==
    LET digits == <<"0", "1", "2", "3", "4", "5", "6", "7", "8", "9">> IN
    IF n < 10 THEN <<digits[n + 1]>>
    ELSE decimal(n \div 10) \o <<digits[(n % 10) + 1]>>
int_str(n) == IF n < 0 THEN <<"-">> \o decimal(0 - n) ELSE decimal(n)

\* -------------------------------------------------------------- JSON values
\* The values a request body carries: str, int, bool, null, list, dict (an object
\* keeps the order of its keys, and its keys are strings).
Str(chars) == [t |-> "str", v |-> chars]
Num(n) == [t |-> "int", v |-> n]
Bool(b) == [t |-> "bool", v |-> b]
List(items) == [t |-> "list", v |-> items]
Dict(pairs) == [t |-> "dict", v |-> pairs]
Pair(key, value) == [k |-> key, val |-> value]

\* isinstance(x, str | list | dict | (int, float)); a bool is an int
is_str(x) == x.t = "str"
is_list(x) == x.t = "list"
is_dict(x) == x.t = "dict"
is_number(x) == x.t \in {"int", "bool"}

\* bool(x): None, False, 0, "", [] and {} are false
truthy(x) ==
    CASE x.t = "null" -> FALSE
      [] x.t = "bool" -> x.v
      [] x.t = "int" -> x.v # 0
      [] OTHER -> x.v # <<>>

\* `key in d`, d.get(key, default), d[key]
has_key(d, key) == \E i \in 1..Len(d.v) : d.v[i].k = key
get(d, key, default) ==
    IF has_key(d, key)
    THEN d.v[CHOOSE i \in 1..Len(d.v) : d.v[i].k = key].val
    ELSE default

\* x == y on two values: numbers by their value (True is 1, False is 0), strings by
\* their characters, lists member by member, dicts key by key whatever the order of
\* the keys; values of different types are not equal.
RECURSIVE py_eq(_, _)
py_eq(x, y) ==
    LET int(n) == IF n.t = "bool" THEN (IF n.v THEN 1 ELSE 0) ELSE n.v IN
    IF is_number(x) /\ is_number(y) THEN int(x) = int(y)
    ELSE IF x.t # y.t THEN FALSE
    ELSE CASE x.t = "str" -> x.v = y.v
           [] x.t = "list" ->
                  /\ Len(x.v) = Len(y.v)
                  /\ \A i \in 1..Len(x.v) : py_eq(x.v[i], y.v[i])
           [] x.t = "dict" ->
                  /\ Len(x.v) = Len(y.v)
                  /\ \A i \in 1..Len(x.v) :
                         /\ has_key(y, x.v[i].k)
                         /\ py_eq(x.v[i].val, get(y, x.v[i].k, Null))
           [] OTHER -> TRUE

\* repr(s) of a str: in single quotes, or in double quotes when it holds a single
\* quote and no double quote; the quote in use and the backslash get a backslash,
\* tab, newline and carriage return are written \t, \n, \r, the form feed \x0c.
str_repr(s) ==
    LET quote == IF contains(s, <<"'">>) /\ ~contains(s, <<"\"">>) THEN "\"" ELSE "'"
        repr_char(ch) ==
            IF ch = quote \/ ch = "\\" THEN <<"\\", ch>>
            ELSE IF ch = "\t" THEN <<"\\", "t">>
            ELSE IF ch = "\n" THEN <<"\\", "n">>
            ELSE IF ch = "\r" THEN <<"\\", "r">>
            ELSE IF ch = "\f" THEN <<"\\", "x", "0", "c">>
            ELSE <<ch>>
    IN  <<quote>> \o Concat([i \in 1..Len(s) |-> repr_char(s[i])]) \o <<quote>>

RECURSIVE py_repr(_)
RECURSIVE items_repr(_)
RECURSIVE pairs_repr(_)
\* repr(x)
py_repr(x) ==
    CASE x.t = "str" -> str_repr(x.v)
      [] x.t = "int" -> int_str(x.v)
      [] x.t = "bool" -> IF x.v THEN <<"T", "r", "u", "e">> ELSE <<"F", "a", "l", "s", "e">>
      [] x.t = "list" -> <<"[">> \o Join(<<",", " ">>, items_repr(x.v)) \o <<"]">>
      [] x.t = "dict" -> <<"{">> \o Join(<<",", " ">>, pairs_repr(x.v)) \o <<"}">>
      [] OTHER -> <<"N", "o", "n", "e">>
items_repr(items) ==
    IF items = <<>> THEN <<>> ELSE <<py_repr(Head(items))>> \o items_repr(Tail(items))
pairs_repr(pairs) ==
    IF pairs = <<>> THEN <<>>
    ELSE <<str_repr(Head(pairs).k) \o <<":", " ">> \o py_repr(Head(pairs).val)>>
         \o pairs_repr(Tail(pairs))

\* str(x) / f"{x}"
py_str(x) == IF x.t = "str" THEN x.v ELSE py_repr(x)

\* The exception of calling a str method on a value that is not a str.
AttributeError == [t |-> "raise", v |-> "AttributeError"]

\* ------------------------------------------------- QueryBuilder (lambda_function)
\* quote_identifier
\* Quoting that wraps whatever it is given.
quote_identifier_always_wraps(identifier) == <<"\"">> \o identifier \o <<"\"">>
quote_identifier(identifier) ==
    IF startswith(identifier, <<"\"">>) /\ endswith(identifier, <<"\"">>)
    THEN identifier
    ELSE <<"\"">> \o identifier \o <<"\"">>

\* column_exists of build_filter_clause: `not column_names or col_name in column_names`
column_exists(col_name, names) ==
    \/ ~truthy(names)
    \/ \E i \in 1..Len(names.v) : py_eq(names.v[i], col_name)

\* A condition of the clause: its text, the names it put in through
\* quote_identifier, and the caller-supplied values it interpolated, each with the
\* text it was given in the condition.
Condition(txt, names, values) == [text |-> txt, cols |-> names, vals |-> values]
Shown(raw_value, shown_text) == [raw |-> raw_value, shown |-> shown_text]

\* Texts the clauses are made of.
SqlText ==
    [SQ |-> <<"'">>,
     GE |-> <<" ", ">", "=", " ">>,
     LE |-> <<" ", "<", "=", " ">>,
     IN_OPEN |-> <<" ", "I", "N", " ", "(">>,
     CLOSE |-> <<")">>,
     OPEN |-> <<"(">>,
     IS_NOT_NULL |-> <<" ", "I", "S", " ", "N", "O", "T", " ", "N", "U", "L", "L">>,
     IS_NULL |-> <<" ", "I", "S", " ", "N", "U", "L", "L">>,
     AND_ |-> <<" ", "A", "N", "D", " ">>,
     OR_ |-> <<" ", "O", "R", " ">>,
     NOT_EMPTY |-> <<" ", "<", ">", " ", "'", "'">>,
     ILIKE |-> <<" ", "I", "L", "I", "K", "E", " ">>,
     NOT_ILIKE |-> <<" ", "N", "O", "T", " ", "I", "L", "I", "K", "E", " ">>,
     PCT |-> <<"%">>,
     CONTAINS_TEXT_OPEN |-> <<"C", "O", "N", "T", "A", "I", "N", "S", "_", "T", "E", "X",
          "T", "(", "'", "*", "'", ",", " ">>]

\* Keys and operator names the builder looks for.
Key ==
    [operator |-> <<"o", "p", "e", "r", "a", "t", "o", "r">>,
     value |-> <<"v", "a", "l", "u", "e">>,
     dataAvailability |->
         <<"d", "a", "t", "a", "A", "v", "a", "i", "l", "a", "b", "i", "l", "i", "t", "y">>,
     exact_values |-> <<"e", "x", "a", "c", "t", "_", "v", "a", "l", "u", "e", "s">>,
     Min |-> <<"M", "i", "n">>,
     Max |-> <<"M", "a", "x">>]

\* `filters.get("operator", "AND")` and the joiner f" {operator} "
\* The joiner fixed to " AND ", whatever the "operator" key says.
operator_spaced_fixed_and(f) == SqlText.AND_
operator_spaced(f) ==
    <<" ">> \o py_str(get(f, Key.operator, Str(<<"A", "N", "D">>))) \o <<" ">>

\* Min/Max stage, for one key: f"{q(col)} >= {filters[key]}"
range_condition(col, cmp, value) ==
    Condition(quote_identifier(col) \o cmp \o py_str(value), <<col>>,
              <<Shown(value, py_str(value))>>)
\* The Min/Max stage without the look-up of the base name in the catalog.
range_of_key_any_column(key, value, names) ==
    (IF endswith(key, Key.Min)
     THEN <<range_condition(drop_last3(key), SqlText.GE, value)>> ELSE <<>>)
    \o
    (IF endswith(key, Key.Max)
     THEN <<range_condition(drop_last3(key), SqlText.LE, value)>> ELSE <<>>)
range_of_key(key, value, names) ==
    (IF endswith(key, Key.Min) /\ column_exists(Str(drop_last3(key)), names)
     THEN <<range_condition(drop_last3(key), SqlText.GE, value)>> ELSE <<>>)
    \o
    (IF endswith(key, Key.Max) /\ column_exists(Str(drop_last3(key)), names)
     THEN <<range_condition(drop_last3(key), SqlText.LE, value)>> ELSE <<>>)

\* "'" + "','".join([str(v).replace("'", "''") for v in values]) + "'"
escaped(v) == replace_quote(py_str(v))
value_list(values) ==
    SqlText.SQ \o Join(<<"'", ",", "'">>, [i \in 1..Len(values) |-> escaped(values[i])])
        \o SqlText.SQ
shown_list(values) == [i \in 1..Len(values) |-> Shown(values[i], escaped(values[i]))]

\* f"{q(key)} IN ({value_list})"
in_condition(col, values) ==
    Condition(quote_identifier(col) \o SqlText.IN_OPEN \o value_list(values)
        \o SqlText.CLOSE, <<col>>,
              shown_list(values))

\* List stage, for one key
list_of_key(key, value, names) ==
    IF is_list(value) /\ Len(value.v) > 0 /\ column_exists(Str(key), names)
    THEN <<in_condition(key, value.v)>>
    ELSE <<>>

RECURSIVE range_stage(_, _)
range_stage(pairs, names) ==
    IF pairs = <<>> THEN <<>>
    ELSE range_of_key(Head(pairs).k, Head(pairs).val, names)
         \o range_stage(Tail(pairs), names)

RECURSIVE list_stage(_, _)
list_stage(pairs, names) ==
    IF pairs = <<>> THEN <<>>
    ELSE list_of_key(Head(pairs).k, Head(pairs).val, names)
         \o list_stage(Tail(pairs), names)

\* Data-availability stage: the listed fields that pass column_exists
data_avail_fields(f, names) ==
    LET listed == get(f, Key.dataAvailability, Null) IN
    IF truthy(listed) /\ is_list(listed)
    THEN SelectSeq(listed.v, LAMBDA field : column_exists(field, names))
    ELSE <<>>

\* f"{q(field)} IS NOT NULL AND {q(field)} <> ''"
data_avail_text(field) ==
    quote_identifier(field) \o SqlText.IS_NOT_NULL \o SqlText.AND_
        \o quote_identifier(field) \o SqlText.NOT_EMPTY

\* f"({joiner.join(data_avail_conditions)})", one condition for the whole group
data_avail_stage(f, names) ==
    LET fields == data_avail_fields(f, names) IN
    IF fields = <<>> THEN <<>>
    ELSE <<Condition(SqlText.OPEN
                     \o Join(operator_spaced(f),
                             [i \in 1..Len(fields) |-> data_avail_text(fields[i].v)])
                     \o SqlText.CLOSE,
                     [i \in 1..Len(fields) |-> fields[i].v], <<>>)>>

\* The operators of an exact_values object
CompareOps == {<<"=">>, <<"!", "=">>, <<">">>, <<"<">>, <<">", "=">>, <<"<", "=">>}

\* f"{q(field)} {op} {val}" for a number, f"{q(field)} {op} '{val_str}'" otherwise
compare_condition(field, op, val) ==
    IF is_number(val)
    THEN Condition(quote_identifier(field) \o <<" ">> \o op \o <<" ">> \o py_str(val),
                   <<field>>, <<Shown(val, py_str(val))>>)
    ELSE Condition(quote_identifier(field) \o <<" ">> \o op \o <<" ">>
                   \o SqlText.SQ \o escaped(val) \o SqlText.SQ,
                   <<field>>, <<Shown(val, escaped(val))>>)

\* f"{q(field)} ILIKE '{before}{val_str}{after}'"
ilike_condition(field, before, val, after) ==
    Condition(quote_identifier(field) \o SqlText.ILIKE \o SqlText.SQ \o before
        \o escaped(val) \o after \o SqlText.SQ,
              <<field>>, <<Shown(val, escaped(val))>>)

\* Exact-value stage, an object with an "operator"
exact_with_operator(field, op, val) ==
    IF ~is_str(op) THEN <<>>
    ELSE IF op.v \in CompareOps THEN <<compare_condition(field, op.v, val)>>
    ELSE IF op.v = <<"C", "O", "N", "T", "A", "I", "N", "S">>
    THEN <<ilike_condition(field, SqlText.PCT, val, SqlText.PCT)>>
    ELSE IF op.v = <<"S", "T", "A", "R", "T", "S", "_", "W", "I", "T", "H">>
    THEN <<ilike_condition(field, <<>>, val, SqlText.PCT)>>
    ELSE IF op.v = <<"E", "N", "D", "S", "_", "W", "I", "T", "H">>
    THEN <<ilike_condition(field, SqlText.PCT, val, <<>>)>>
    ELSE IF op.v = <<"I", "S", "_", "N", "U", "L", "L">>
    THEN <<Condition(quote_identifier(field) \o SqlText.IS_NULL, <<field>>, <<>>)>>
    ELSE IF op.v = <<"I", "S", "_", "N", "O", "T", "_", "N", "U", "L", "L">>
    THEN <<Condition(quote_identifier(field) \o SqlText.IS_NOT_NULL, <<field>>, <<>>)>>
    ELSE <<>>

\* Exact-value stage, a bare value
exact_bare(field, val) ==
    IF is_list(val)
    THEN (IF Len(val.v) > 0 THEN <<in_condition(field, val.v)>> ELSE <<>>)
    ELSE <<compare_condition(field, <<"=">>, val)>>

\* Exact-value stage, for one field of filters["exact_values"]
exact_of_field(field, filter_obj, names) ==
    IF ~column_exists(Str(field), names) THEN <<>>
    ELSE IF is_dict(filter_obj) /\ has_key(filter_obj, Key.operator)
    THEN exact_with_operator(field, get(filter_obj, Key.operator, Str(<<"=">>)),
                             get(filter_obj, Key.value, Str(<<>>)))
    ELSE exact_bare(field, filter_obj)

\* Exact-value stage: `for field, filter_obj in filters["exact_values"].items()`
exact_stage(f, names) ==
    LET exact_values == get(f, Key.exact_values, Null) IN
    IF truthy(exact_values) /\ is_dict(exact_values)
    THEN Concat([i \in 1..Len(exact_values.v) |->
                    exact_of_field(exact_values.v[i].k, exact_values.v[i].val, names)])
    ELSE <<>>

\* `not filters or not isinstance(filters, dict) or len(filters) == 0`
no_filters(f) == ~truthy(f) \/ ~is_dict(f)

\* The list `conditions` at the end of build_filter_clause
filter_conditions(f, names) ==
    IF no_filters(f) THEN <<>>
    ELSE range_stage(f.v, names) \o list_stage(f.v, names)
         \o data_avail_stage(f, names) \o exact_stage(f, names)

\* quote_identifier is reached with a field that is not a str: `identifier.startswith`
\* raises AttributeError.
filter_raises(f, names) ==
    /\ ~no_filters(f)
    /\ \E i \in 1..Len(data_avail_fields(f, names)) : ~is_str(data_avail_fields(f, names)[i])

\* build_filter_clause(filters, column_names): the string returned, or the exception
build_filter_clause(f, names) ==
    IF no_filters(f) THEN Str(<<>>)
    ELSE IF filter_raises(f, names) THEN AttributeError
    ELSE LET conds == filter_conditions(f, names) IN
         Str(Join(operator_spaced(f), [i \in 1..Len(conds) |-> conds[i].text]))

\* ------------------------------------------------------- build_search_clause

\* is_non_searchable_column(col_name)
is_non_searchable_column(col_name) ==
    LET col_lower == lower(col_name) IN
    \/ col_lower = <<"i", "d">>
    \/ endswith(col_lower, <<"_", "i", "d">>)
    \/ (endswith(col_lower, <<"i", "d">>) /\ Len(col_lower) > 2)
    \/ contains(col_lower, <<"d", "a", "t", "e">>)
    \/ contains(col_lower, <<"t", "i", "m", "e">>)
    \/ contains(col_lower, <<"t", "i", "m", "e", "s", "t", "a", "m", "p">>)
    \/ contains(col_lower, <<"c", "r", "e", "a", "t", "e", "d">>)
    \/ contains(col_lower, <<"u", "p", "d", "a", "t", "e", "d">>)
    \/ contains(col_lower, <<"m", "o", "d", "i", "f", "i", "e", "d">>)

\* [term.strip() for term in keywords.split(",") if term.strip()]
search_terms(kw) ==
    LET pieces == split(kw) IN
    SelectSeq([i \in 1..Len(pieces) |-> strip(pieces[i])], LAMBDA term : term # <<>>)

\* [col for col in column_names if not self.is_non_searchable_column(col)]
text_columns(names) ==
    LET kept == SelectSeq(names.v, LAMBDA col : ~is_non_searchable_column(col.v)) IN
    [i \in 1..Len(kept) |-> kept[i].v]


\* f"{quote_identifier(col)} ILIKE '%{clean_term}%'" / NOT ILIKE
column_condition(col, like, clean_term) ==
    quote_identifier(col) \o like \o SqlText.SQ \o SqlText.PCT \o clean_term
        \o SqlText.PCT \o SqlText.SQ

\* The body of the loop over search_terms: what one term appends to all_conditions
term_conditions(term, columns) ==
    LET clean_term == replace_quote(term)
        \* clean_term[1:]
        without_dash == Tail(clean_term)
    IN
    IF startswith(clean_term, <<"-">>)
    THEN (IF without_dash = <<>> THEN <<>>
          ELSE <<Condition(Join(SqlText.AND_, [i \in 1..Len(columns) |->
                                 column_condition(columns[i], SqlText.NOT_ILIKE,
                                                  without_dash)]),
                           columns,
                           <<Shown(Str(Tail(term)), without_dash)>>)>>)
    ELSE <<Condition(SqlText.OPEN \o Join(SqlText.OR_, [i \in 1..Len(columns) |->
                                   column_condition(columns[i], SqlText.ILIKE, clean_term)])
                     \o SqlText.CLOSE,
                     columns, <<Shown(Str(term), clean_term)>>)>>

RECURSIVE all_conditions(_, _)
all_conditions(terms, columns) ==
    IF terms = <<>> THEN <<>>
    ELSE term_conditions(Head(terms), columns) \o all_conditions(Tail(terms), columns)

\* `not keywords or keywords.strip() == ""`, for a str
no_keywords(kw) == ~truthy(kw) \/ (is_str(kw) /\ strip(kw.v) = <<>>)

\* keywords.strip() on a value that is not a str raises AttributeError
search_raises(kw) == truthy(kw) /\ ~is_str(kw)

\* The conditions build_search_clause joins; without a catalog one
\* f"CONTAINS_TEXT('*', '{term}')" for each term
search_conditions(kw, names) ==
    LET contains_text_condition(term) ==
            Condition(SqlText.CONTAINS_TEXT_OPEN \o SqlText.SQ \o replace_quote(term)
                      \o SqlText.SQ \o SqlText.CLOSE, <<>>,
                      <<Shown(Str(term), replace_quote(term))>>)
    IN
    IF no_keywords(kw) \/ search_raises(kw) THEN <<>>
    ELSE IF ~truthy(names)
    THEN [i \in 1..Len(search_terms(kw.v)) |->
             contains_text_condition(search_terms(kw.v)[i])]
    ELSE IF text_columns(names) = <<>> THEN <<>>
    ELSE all_conditions(search_terms(kw.v), text_columns(names))

\* build_search_clause(keywords, column_names): the string returned, or the exception;
\* " OR " between the CONTAINS_TEXT conditions, " AND " between the conditions of terms
build_search_clause(kw, names) ==
    IF search_raises(kw) THEN AttributeError
    ELSE LET conds == search_conditions(kw, names) IN
         Str(Join(IF ~truthy(names) THEN SqlText.OR_ ELSE SqlText.AND_,
                  [i \in 1..Len(conds) |-> conds[i].text]))

\* ----------------------------------------------------- QueryBuilder (snowflake)
\* The class of the same name in snowflake.py.  Its quote_identifier,
\* is_non_searchable_column and column_exists, its Min/Max stage and its
\* data-availability stage read as those of lambda_function.py do; it has stages for
\* filters with a name of their own before them, a list stage that leaves those
\* names out, an exact-value stage without IS_NULL, IS_NOT_NULL and lists, and a
\* search that needs a catalog.

\* "contract_type": a list gives f'"TYPE" IN ({type_list})'
contract_type_stage(f) ==
    LET types == get(f, <<"c", "o", "n", "t", "r", "a", "c", "t", "_", "t", "y", "p",
            "e">>, Null) IN
    IF is_list(types)
    THEN <<Condition(<<"\"", "T", "Y", "P", "E", "\"", " ", "I", "N", " ",
            "(">> \o value_list(types.v) \o SqlText.CLOSE,
                     <<<<"T", "Y", "P", "E">>>>, shown_list(types.v))>>
    ELSE <<>>

\* "has_execution_data": True and False give a fixed condition each, any other
\* value gives none
has_execution_data_stage(f) ==
    LET flag == get(f, <<"h", "a", "s", "_", "e", "x", "e", "c", "u", "t", "i", "o", "n",
            "_", "d", "a", "t", "a">>, Null) IN
    IF flag.t # "bool" THEN <<>>
    ELSE IF flag.v
    THEN <<Condition(<<"(", "\"", "A", "W", "A", "R", "D", "_", "I", "D", "_", "P", "I",
            "I", "D", "\"", " ", "I", "S", " ", "N", "O", "T", " ", "N", "U", "L", "L",
                    " ", "A", "N", "D", " ", "\"", "A", "W", "A", "R", "D", "_", "I", "D",
                            "_", "P", "I", "I", "D", "\"", " ", "<", ">", " ", "'", "'",
                                    ")">>,
                     <<<<"A", "W", "A", "R", "D", "_", "I", "D", "_", "P", "I", "I",
                             "D">>>>, <<>>)>>
    ELSE <<Condition(<<"(", "\"", "A", "W", "A", "R", "D", "_", "I", "D", "_", "P", "I",
            "I", "D", "\"", " ", "I", "S", " ", "N", "U", "L", "L", " ", "O", "R", " ",
                    "\"", "A", "W", "A", "R", "D", "_", "I", "D", "_", "P", "I", "I", "D",
                            "\"", " ", "=", " ", "'", "'", ")">>,
                     <<<<"A", "W", "A", "R", "D", "_", "I", "D", "_", "P", "I", "I",
                             "D">>>>, <<>>)>>

\* "min_award_amount", "max_award_amount": f'"AWARD$" >= {value}' unless None
award_amount_stage(f) ==
    LET amount(key, cmp) ==
            IF get(f, key, Null).t # "null"
            THEN <<Condition(<<"\"", "A", "W", "A", "R", "D", "$",
                    "\"">> \o cmp \o py_str(get(f, key, Null)),
                             <<<<"A", "W", "A", "R", "D", "$">>>>,
                             <<Shown(get(f, key, Null), py_str(get(f, key, Null)))>>)>>
            ELSE <<>>
    IN  amount(<<"m", "i", "n", "_", "a", "w", "a", "r", "d", "_", "a", "m", "o", "u", "n",
            "t">>, SqlText.GE) \o amount(<<"m", "a", "x", "_", "a", "w", "a", "r", "d",
                    "_", "a", "m", "o", "u", "n", "t">>, SqlText.LE)

\* "agency", "naics_code", "awardee", "psc_code", "award_id": a truthy value gives an
\* ILIKE on the columns of the filter, and a naics_code of digits a comparison too
text_filter_stage(f) ==
    LET like(col, v) ==
            <<"\"">> \o col \o <<"\"">> \o SqlText.ILIKE \o SqlText.SQ \o SqlText.PCT
            \o escaped(v) \o SqlText.PCT \o SqlText.SQ
        isdigit(s) == s # <<>> /\ \A i \in 1..Len(s) : s[i] \in
                          {"0", "1", "2", "3", "4", "5", "6", "7", "8", "9"}
        one(key, text(_), columns) ==
            IF truthy(get(f, key, Null))
            THEN <<Condition(text(get(f, key, Null)), columns,
                             <<Shown(get(f, key, Null), escaped(get(f, key, Null)))>>)>>
            ELSE <<>>
        agency(v) == like(<<"D", "e", "p", "a", "r", "t", "m", "e", "n", "t", "/", "I",
                "n", "d", ".", "A", "g", "e", "n", "c", "y">>, v)
        naics_code(v) ==
            IF isdigit(escaped(v))
            THEN SqlText.OPEN \o <<"\"", "N", "A", "I", "C", "S", "C", "O", "D", "E", "\"",
                    " ", "=", " ">> \o escaped(v) \o SqlText.OR_
                 \o like(<<"N", "A", "I", "C", "S", "_", "C", "O", "D", "E">>,
                         v) \o SqlText.CLOSE
            ELSE like(<<"N", "A", "I", "C", "S", "_", "C", "O", "D", "E">>, v)
        awardee(v) == like(<<"A", "W", "A", "R", "D", "E", "E">>, v)
        psc_code(v) == like(<<"P", "R", "O", "D", "U", "C", "T", "_", "O", "R", "_", "S",
                "E", "R", "V", "I", "C", "E", "_", "C", "O", "D", "E">>, v)
        award_id(v) ==
            SqlText.OPEN \o like(<<"A", "W", "A", "R", "D", "N", "U", "M", "B", "E", "R">>,
                    v) \o SqlText.OR_
            \o like(<<"A", "W", "A", "R", "D", "_", "I", "D", "_", "P", "I", "I", "D">>,
                    v) \o SqlText.CLOSE
    IN  one(<<"a", "g", "e", "n", "c", "y">>, agency, <<<<"D", "e", "p", "a", "r", "t",
            "m", "e", "n", "t", "/", "I", "n", "d", ".", "A", "g", "e", "n", "c", "y">>>>)
        \o one(<<"n", "a", "i", "c", "s", "_", "c", "o", "d", "e">>, naics_code,
               IF isdigit(escaped(get(f, <<"n", "a", "i", "c", "s", "_", "c", "o", "d",
                       "e">>, Null)))
               THEN <<<<"N", "A", "I", "C", "S", "C", "O", "D", "E">>, <<"N", "A", "I",
                       "C", "S", "_", "C", "O", "D", "E">>>> ELSE <<<<"N", "A", "I", "C",
                               "S", "_", "C", "O", "D", "E">>>>)
        \o one(<<"a", "w", "a", "r", "d", "e", "e">>, awardee, <<<<"A", "W", "A", "R", "D",
                "E", "E">>>>)
        \o one(<<"p", "s", "c", "_", "c", "o", "d", "e">>, psc_code, <<<<"P", "R", "O",
                "D", "U", "C", "T", "_", "O", "R", "_", "S", "E", "R", "V", "I", "C", "E",
                        "_", "C", "O", "D", "E">>>>)
        \o one(<<"a", "w", "a", "r", "d", "_", "i", "d">>, award_id, <<<<"A", "W", "A",
                "R", "D", "N", "U", "M", "B", "E", "R">>, <<"A", "W", "A", "R", "D", "_",
                        "I", "D", "_", "P", "I", "I", "D">>>>)

\* "award_date_start", "award_date_end": a truthy value gives
\* f'"AWARDDATE" >= \'{value}\''
award_date_stage(f) ==
    LET date(key, cmp) ==
            IF truthy(get(f, key, Null))
            THEN <<Condition(<<"\"", "A", "W", "A", "R", "D", "D", "A", "T", "E",
                    "\"">> \o cmp \o SqlText.SQ
                             \o py_str(get(f, key, Null)) \o SqlText.SQ,
                             <<<<"A", "W", "A", "R", "D", "D", "A", "T", "E">>>>,
                             <<Shown(get(f, key, Null), py_str(get(f, key, Null)))>>)>>
            ELSE <<>>
    IN  date(<<"a", "w", "a", "r", "d", "_", "d", "a", "t", "e", "_", "s", "t", "a", "r",
            "t">>, SqlText.GE) \o date(<<"a", "w", "a", "r", "d", "_", "d", "a", "t", "e",
                    "_", "e", "n", "d">>, SqlText.LE)

\* List stage: as in lambda_function.py, for the keys not in excluded_keys
snowflake_list_stage(pairs, names) ==
    LET excluded_keys ==
            {<<"c", "o", "n", "t", "r", "a", "c", "t", "_", "t", "y", "p", "e">>,
             <<"h", "a", "s", "_", "e", "x", "e", "c", "u", "t", "i", "o", "n", "_", "d",
               "a", "t", "a">>,
             <<"m", "i", "n", "_", "a", "w", "a", "r", "d", "_", "a", "m", "o", "u", "n",
               "t">>,
             <<"m", "a", "x", "_", "a", "w", "a", "r", "d", "_", "a", "m", "o", "u", "n",
               "t">>,
             <<"a", "g", "e", "n", "c", "y">>,
             <<"n", "a", "i", "c", "s", "_", "c", "o", "d", "e">>,
             <<"a", "w", "a", "r", "d", "e", "e">>,
             <<"a", "w", "a", "r", "d", "_", "d", "a", "t", "e", "_", "s", "t", "a", "r",
               "t">>,
             <<"a", "w", "a", "r", "d", "_", "d", "a", "t", "e", "_", "e", "n", "d">>,
             <<"p", "s", "c", "_", "c", "o", "d", "e">>,
             <<"a", "w", "a", "r", "d", "_", "i", "d">>}
    IN  Concat([i \in 1..Len(pairs) |->
                   IF pairs[i].k \notin excluded_keys
                   THEN list_of_key(pairs[i].k, pairs[i].val, names)
                   ELSE <<>>])

\* Exact-value stage: for a field of filters["exact_values"] that passes
\* column_exists, an object with an "operator" gives a comparison or an ILIKE, any
\* other value `field = value`
snowflake_exact_stage(f, names) ==
    LET exact_values == get(f, Key.exact_values, Null)
        with_operator(field, op, val) ==
            IF ~is_str(op) THEN <<>>
            ELSE IF op.v \in CompareOps THEN <<compare_condition(field, op.v, val)>>
            ELSE IF op.v = <<"C", "O", "N", "T", "A", "I", "N", "S">>
            THEN <<ilike_condition(field, SqlText.PCT, val, SqlText.PCT)>>
            ELSE IF op.v = <<"S", "T", "A", "R", "T", "S", "_", "W", "I", "T", "H">>
            THEN <<ilike_condition(field, <<>>, val, SqlText.PCT)>>
            ELSE IF op.v = <<"E", "N", "D", "S", "_", "W", "I", "T", "H">>
            THEN <<ilike_condition(field, SqlText.PCT, val, <<>>)>>
            ELSE <<>>
        of_field(field, filter_obj) ==
            IF ~column_exists(Str(field), names) THEN <<>>
            ELSE IF is_dict(filter_obj) /\ has_key(filter_obj, Key.operator)
            THEN with_operator(field, get(filter_obj, Key.operator, Str(<<"=">>)),
                               get(filter_obj, Key.value, Str(<<>>)))
            ELSE <<compare_condition(field, <<"=">>, filter_obj)>>
    IN  IF truthy(exact_values) /\ is_dict(exact_values)
        THEN Concat([i \in 1..Len(exact_values.v) |->
                        of_field(exact_values.v[i].k, exact_values.v[i].val)])
        ELSE <<>>

\* The list `conditions` at the end of build_filter_clause
snowflake_filter_conditions(f, names) ==
    IF no_filters(f) THEN <<>>
    ELSE contract_type_stage(f) \o has_execution_data_stage(f) \o award_amount_stage(f)
         \o text_filter_stage(f) \o award_date_stage(f)
         \o range_stage(f.v, names) \o snowflake_list_stage(f.v, names)
         \o data_avail_stage(f, names) \o snowflake_exact_stage(f, names)

\* build_filter_clause(filters, column_names): the string returned, or the exception
snowflake_build_filter_clause(f, names) ==
    IF no_filters(f) THEN Str(<<>>)
    ELSE IF filter_raises(f, names) THEN AttributeError
    ELSE LET conds == snowflake_filter_conditions(f, names) IN
         Str(Join(operator_spaced(f), [i \in 1..Len(conds) |-> conds[i].text]))

\* The conditions build_search_clause joins: none without a catalog
snowflake_search_conditions(kw, names) ==
    IF no_keywords(kw) \/ search_raises(kw) THEN <<>>
    ELSE IF ~truthy(names) THEN <<>>
    ELSE IF text_columns(names) = <<>> THEN <<>>
    ELSE all_conditions(search_terms(kw.v), text_columns(names))

\* build_search_clause(keywords, column_names): the string returned, or the exception
snowflake_build_search_clause(kw, names) ==
    IF search_raises(kw) THEN AttributeError
    ELSE LET conds == snowflake_search_conditions(kw, names) IN
         Str(Join(SqlText.AND_, [i \in 1..Len(conds) |-> conds[i].text]))

\* ================================================= calls of the query builder
\* The arguments the builder is called with.
MaxKeys == 2            \* keys of the filters object, "operator" not counted
MaxTerms == 2           \* comma-separated pieces of the keywords string
MaxIdentLen == 3        \* characters of an identifier given to quote_identifier

\* Key/value pairs a filters object is made of.
FilterPairs ==
    <<\* {"AMin": 5}
      Pair(<<"A", "M", "i", "n">>, Num(5)),
      \* {"AMax": "x'y"}
      Pair(<<"A", "M", "a", "x">>, Str(<<"x", "'", "y">>)),
      \* {"AMOUNT_KMin": 100}
      Pair(<<"A", "M", "O", "U", "N", "T", "_", "K", "M", "i", "n">>, Num(100)),
      \* {"NOTACOLUMN": 5}
      Pair(<<"N", "O", "T", "A", "C", "O", "L", "U", "M", "N">>, Num(5)),
      \* {"NOTACOLUMNMin": 5}
      Pair(<<"N", "O", "T", "A", "C", "O", "L", "U", "M", "N", "M", "i", "n">>, Num(5)),
      \* {"STATUS": ["Open", "Closed"]}
      Pair(<<"S", "T", "A", "T", "U", "S">>,
           List(<<Str(<<"O", "p", "e", "n">>), Str(<<"C", "l", "o", "s", "e", "d">>)>>)),
      \* {"STATUS": []}
      Pair(<<"S", "T", "A", "T", "U", "S">>, List(<<>>)),
      \* {"A": ["o'k", 5]}
      Pair(<<"A">>, List(<<Str(<<"o", "'", "k">>), Num(5)>>)),
      \* {"operator": "OR"}
      Pair(<<"o", "p", "e", "r", "a", "t", "o", "r">>, Str(<<"O", "R">>)),
      \* {"operator": "AND"}
      Pair(<<"o", "p", "e", "r", "a", "t", "o", "r">>, Str(<<"A", "N", "D">>)),
      \* {"operator": "XOR"}
      Pair(<<"o", "p", "e", "r", "a", "t", "o", "r">>, Str(<<"X", "O", "R">>)),
      \* {"dataAvailability": ["A", "B"]}
      Pair(<<"d", "a", "t", "a", "A", "v", "a", "i", "l", "a", "b", "i", "l", "i", "t", "y">>,
           List(<<Str(<<"A">>), Str(<<"B">>)>>)),
      \* {"dataAvailability": [5]}
      Pair(<<"d", "a", "t", "a", "A", "v", "a", "i", "l", "a", "b", "i", "l", "i", "t", "y">>,
           List(<<Num(5)>>)),
      \* {"exact_values": {"A": 5}}
      Pair(<<"e", "x", "a", "c", "t", "_", "v", "a", "l", "u", "e", "s">>,
           Dict(<<Pair(<<"A">>, Num(5))>>)),
      \* {"exact_values": {"A": "o'k", "NOTACOLUMN": ["x"]}}
      Pair(<<"e", "x", "a", "c", "t", "_", "v", "a", "l", "u", "e", "s">>,
           Dict(<<Pair(<<"A">>, Str(<<"o", "'", "k">>)),
                  Pair(<<"N", "O", "T", "A", "C", "O", "L", "U", "M", "N">>,
                       List(<<Str(<<"x">>)>>))>>)),
      \* {"exact_values": {"A": {"operator": "CONTAINS", "value": "o'k"}, "STATUS": {"operator": ">=", "value": 5}}}
      Pair(<<"e", "x", "a", "c", "t", "_", "v", "a", "l", "u", "e", "s">>,
           Dict(<<Pair(<<"A">>,
                       Dict(<<Pair(<<"o", "p", "e", "r", "a", "t", "o", "r">>,
                                   Str(<<"C", "O", "N", "T", "A", "I", "N", "S">>)),
                              Pair(<<"v", "a", "l", "u", "e">>, Str(<<"o", "'", "k">>))>>)),
                  Pair(<<"S", "T", "A", "T", "U", "S">>,
                       Dict(<<Pair(<<"o", "p", "e", "r", "a", "t", "o", "r">>,
                                   Str(<<">", "=">>)),
                              Pair(<<"v", "a", "l", "u", "e">>, Num(5))>>))>>)),
      \* {"exact_values": {"A": {"operator": "STARTS_WITH", "value": "a"}, "STATUS": {"operator": "ENDS_WITH", "value": "b"}, "B": {"operator": "!=", "value": "c"}}}
      Pair(<<"e", "x", "a", "c", "t", "_", "v", "a", "l", "u", "e", "s">>,
           Dict(<<Pair(<<"A">>,
                       Dict(<<Pair(<<"o", "p", "e", "r", "a", "t", "o", "r">>,
                                   Str(<<"S", "T", "A", "R", "T", "S", "_", "W", "I", "T", "H">>)),
                              Pair(<<"v", "a", "l", "u", "e">>, Str(<<"a">>))>>)),
                  Pair(<<"S", "T", "A", "T", "U", "S">>,
                       Dict(<<Pair(<<"o", "p", "e", "r", "a", "t", "o", "r">>,
                                   Str(<<"E", "N", "D", "S", "_", "W", "I", "T", "H">>)),
                              Pair(<<"v", "a", "l", "u", "e">>, Str(<<"b">>))>>)),
                  Pair(<<"B">>,
                       Dict(<<Pair(<<"o", "p", "e", "r", "a", "t", "o", "r">>,
                                   Str(<<"!", "=">>)),
                              Pair(<<"v", "a", "l", "u", "e">>, Str(<<"c">>))>>))>>)),
      \* {"exact_values": {"A": {"operator": "IS_NULL"}, "STATUS": {"operator": "IS_NOT_NULL"}, "B": {"operator": "LIKE", "value": "c"}}}
      Pair(<<"e", "x", "a", "c", "t", "_", "v", "a", "l", "u", "e", "s">>,
           Dict(<<Pair(<<"A">>,
                       Dict(<<Pair(<<"o", "p", "e", "r", "a", "t", "o", "r">>,
                                   Str(<<"I", "S", "_", "N", "U", "L", "L">>))>>)),
                  Pair(<<"S", "T", "A", "T", "U", "S">>,
                       Dict(<<Pair(<<"o", "p", "e", "r", "a", "t", "o", "r">>,
                                   Str(<<"I", "S", "_", "N", "O", "T", "_", "N", "U", "L", "L">>))>>)),
                  Pair(<<"B">>,
                       Dict(<<Pair(<<"o", "p", "e", "r", "a", "t", "o", "r">>,
                                   Str(<<"L", "I", "K", "E">>)),
                              Pair(<<"v", "a", "l", "u", "e">>, Str(<<"c">>))>>))>>)),
      \* {"exact_values": {"A": [], "STATUS": ["o'k", 5], "B": ["x"]}}
      Pair(<<"e", "x", "a", "c", "t", "_", "v", "a", "l", "u", "e", "s">>,
           Dict(<<Pair(<<"A">>, List(<<>>)),
                  Pair(<<"S", "T", "A", "T", "U", "S">>,
                       List(<<Str(<<"o", "'", "k">>), Num(5)>>)),
                  Pair(<<"B">>, List(<<Str(<<"x">>)>>))>>)),
      \* {"exact_values": {"A": {"operator": "IS_NULL", "value": 5}, "STATUS": {"operator": "<", "value": "o'k"}, "TITLE": {"value": 5}}}
      Pair(<<"e", "x", "a", "c", "t", "_", "v", "a", "l", "u", "e", "s">>,
           Dict(<<Pair(<<"A">>,
                       Dict(<<Pair(<<"o", "p", "e", "r", "a", "t", "o", "r">>,
                                   Str(<<"I", "S", "_", "N", "U", "L", "L">>)),
                              Pair(<<"v", "a", "l", "u", "e">>, Num(5))>>)),
                  Pair(<<"S", "T", "A", "T", "U", "S">>,
                       Dict(<<Pair(<<"o", "p", "e", "r", "a", "t", "o", "r">>, Str(<<"<">>)),
                              Pair(<<"v", "a", "l", "u", "e">>, Str(<<"o", "'", "k">>))>>)),
                  Pair(<<"T", "I", "T", "L", "E">>,
                       Dict(<<Pair(<<"v", "a", "l", "u", "e">>, Num(5))>>))>>)),
      \* {"exact_values": {"A": {"operator": "="}, "STATUS": {"operator": 5, "value": 5}, "TITLE": null}}
      Pair(<<"e", "x", "a", "c", "t", "_", "v", "a", "l", "u", "e", "s">>,
           Dict(<<Pair(<<"A">>,
                       Dict(<<Pair(<<"o", "p", "e", "r", "a", "t", "o", "r">>, Str(<<"=">>))>>)),
                  Pair(<<"S", "T", "A", "T", "U", "S">>,
                       Dict(<<Pair(<<"o", "p", "e", "r", "a", "t", "o", "r">>, Num(5)),
                              Pair(<<"v", "a", "l", "u", "e">>, Num(5))>>)),
                  Pair(<<"T", "I", "T", "L", "E">>, Null)>>)),
      \* {"dataAvailability": ["A", "NOPE", "STATUS"]}
      Pair(<<"d", "a", "t", "a", "A", "v", "a", "i", "l", "a", "b", "i", "l", "i", "t",
              "y">>,
           List(<<Str(<<"A">>), Str(<<"N", "O", "P", "E">>), Str(<<"S", "T", "A", "T", "U",
                   "S">>)>>)),
      \* {"contract_type": ["A", "o'k"]}
      Pair(<<"c", "o", "n", "t", "r", "a", "c", "t", "_", "t", "y", "p", "e">>,
              List(<<Str(<<"A">>), Str(<<"o", "'", "k">>)>>)),
      \* {"has_execution_data": true}
      Pair(<<"h", "a", "s", "_", "e", "x", "e", "c", "u", "t", "i", "o", "n", "_", "d",
              "a", "t", "a">>, Bool(TRUE)),
      \* {"has_execution_data": false}
      Pair(<<"h", "a", "s", "_", "e", "x", "e", "c", "u", "t", "i", "o", "n", "_", "d",
              "a", "t", "a">>, Bool(FALSE)),
      \* {"min_award_amount": 100}
      Pair(<<"m", "i", "n", "_", "a", "w", "a", "r", "d", "_", "a", "m", "o", "u", "n",
              "t">>, Num(100)),
      \* {"max_award_amount": "x'y"}
      Pair(<<"m", "a", "x", "_", "a", "w", "a", "r", "d", "_", "a", "m", "o", "u", "n",
              "t">>, Str(<<"x", "'", "y">>)),
      \* {"max_award_amount": null}
      Pair(<<"m", "a", "x", "_", "a", "w", "a", "r", "d", "_", "a", "m", "o", "u", "n",
              "t">>, Null),
      \* {"agency": "o'k"}
      Pair(<<"a", "g", "e", "n", "c", "y">>, Str(<<"o", "'", "k">>)),
      \* {"agency": ["x"]}
      Pair(<<"a", "g", "e", "n", "c", "y">>, List(<<Str(<<"x">>)>>)),
      \* {"naics_code": "541"}
      Pair(<<"n", "a", "i", "c", "s", "_", "c", "o", "d", "e">>, Str(<<"5", "4", "1">>)),
      \* {"naics_code": "54a"}
      Pair(<<"n", "a", "i", "c", "s", "_", "c", "o", "d", "e">>, Str(<<"5", "4", "a">>)),
      \* {"awardee": "x"}
      Pair(<<"a", "w", "a", "r", "d", "e", "e">>, Str(<<"x">>)),
      \* {"psc_code": 5}
      Pair(<<"p", "s", "c", "_", "c", "o", "d", "e">>, Num(5)),
      \* {"award_id": "W9"}
      Pair(<<"a", "w", "a", "r", "d", "_", "i", "d">>, Str(<<"W", "9">>)),
      \* {"award_date_start": "2024"}
      Pair(<<"a", "w", "a", "r", "d", "_", "d", "a", "t", "e", "_", "s", "t", "a", "r",
              "t">>, Str(<<"2", "0", "2", "4">>)),
      \* {"award_date_end": "x'y"}
      Pair(<<"a", "w", "a", "r", "d", "_", "d", "a", "t", "e", "_", "e", "n", "d">>,
              Str(<<"x", "'", "y">>)),
      \* {"exact_values": {"A": ["a\tb", "c\\d"], "STATUS": true}}
      Pair(<<"e", "x", "a", "c", "t", "_", "v", "a", "l", "u", "e", "s">>,
           Dict(<<Pair(<<"A">>, List(<<Str(<<"a", "\t", "b">>), Str(<<"c", "\\", "d">>)>>)),
                  Pair(<<"S", "T", "A", "T", "U", "S">>, Bool(TRUE))>>))>>

\* The filters arguments: the objects with up to MaxKeys keys and, among them or not,
\* an "operator" key (the keys of an object are distinct), and values that are not
\* objects.
FilterInputs ==
    {Dict([i \in 1..Len(s) |-> FilterPairs[s[i]]]) :
        s \in {x \in UNION {[1..m -> 1..Len(FilterPairs)] : m \in 0..(MaxKeys + 1)} :
                 /\ \A i, j \in 1..Len(x) :
                        i # j => FilterPairs[x[i]].k # FilterPairs[x[j]].k
                 /\ Cardinality({i \in 1..Len(x) : FilterPairs[x[i]].k # Key.operator})
                      <= MaxKeys}}
    \cup {Null, Num(5), Bool(TRUE), Str(<<"x">>), List(<<Str(<<"A">>)>>)}

\* The keywords arguments: up to MaxTerms pieces joined by commas, and values that
\* are not strings.
KeywordInputs ==
    LET RawTerms ==
            {<<>>,
             <<" ">>,
             <<"d", "r", "o", "n", "e">>,
             <<"-", "c", "l", "a", "s", "s", "i", "f", "i", "e", "d">>,
             <<"-">>,
             <<"o", "'", "k">>,
             <<"-", "o", "'", "k">>,
             <<" ", "a", " ">>,
             <<"\t", "a", "\n">>,
             <<"\t">>}
    IN  {Str(Join(<<",">>, s)) : s \in UNION {[1..m -> RawTerms] : m \in 0..MaxTerms}}
        \cup {Null, Num(5), Num(0), Bool(TRUE), List(<<Str(<<"a">>)>>)}

\* The identifiers: the strings of up to MaxIdentLen characters over a letter, an
\* underscore and the double quote, and a value that is not a string.
IdentifierInputs ==
    {Str(x) : x \in UNION {[1..m -> {"A", "_", "\""}] : m \in 0..MaxIdentLen}}
    \cup {Num(5)}

\* The catalogs: absent, empty, or a list of column names.
Catalogs ==
    {Null,
     List(<<>>),
     List(<<Str(<<"A">>)>>),
     List(<<Str(<<"T", "I", "T", "L", "E">>), Str(<<"I", "D">>)>>),
     List(<<Str(<<"A", "M", "O", "U", "N", "T", "_", "K">>)>>),
     List(<<Str(<<"S", "T", "A", "T", "U", "S">>)>>),
     List(<<Str(<<"A">>), Str(<<"S", "T", "A", "T", "U", "S">>)>>),
     List(<<Str(<<"a", "g", "e", "n", "c", "y">>), Str(<<"A">>)>>),
     List(<<Str(<<"I", "D">>), Str(<<"C", "R", "E", "A", "T", "E", "D", "_", "A", "T">>)>>),
     List(<<Str(<<"U", "S", "E", "R", "I", "D">>),
            Str(<<"U", "P", "D", "A", "T", "E", "D">>),
            Str(<<"N", "a", "m", "e">>)>>),
     List(<<Str(<<"T", "I", "M", "E", "S", "T", "A", "M", "P">>),
            Str(<<"P", "A", "I", "D">>),
            Str(<<"T", "I", "T", "L", "E">>)>>),
     List(<<Str(<<"M", "O", "D", "I", "F", "I", "E", "D", "_", "B", "Y">>),
            Str(<<"D", "A", "T", "E">>),
            Str(<<"T", "I", "M", "E">>),
            Str(<<"D">>)>>)}

\* The pool is constructed and left alone; one call of the builder is about to be made.
InitQuery ==
    /\ max_connections = MaxPoolSize
    /\ pool = <<>>
    /\ active_connections = 0
    /\ lock = None
    /\ connection_times = [c \in Conns |-> NoTime]
    /\ pc = [t \in Threads |-> "idle"]
    /\ connection = [t \in Threads |-> None]
    /\ discarded = [t \in Threads |-> FALSE]
    /\ conn_status = [c \in Conns |-> "unborn"]
    /\ conn_id = [c \in Conns |-> 0]
    /\ conn_age = [c \in Conns |-> NoTime]
    /\ conn_probes = [c \in Conns |-> 0]
    /\ admin_pc = "idle"
    /\ ca_clean = FALSE
    /\ closed_now = {}
    /\ raised = "none"
    /\ in_flight = [t \in Threads |-> "none"]
    /\ stats_counter = <<>>
    /\ stats = NoStats
    /\ builder \in {"lambda_function", "snowflake"}
    /\ called = "none"
    /\ clause = Null
    /\ conditions = <<>>
    /\ returned = FALSE
    /\ NoRequest
    /\ NoSingleton
    /\ \/ filters \in FilterInputs /\ keywords = Null /\ identifier_arg = Null
          /\ column_names \in Catalogs
       \/ keywords \in KeywordInputs /\ filters = Null /\ identifier_arg = Null
          /\ column_names \in Catalogs
       \/ identifier_arg \in IdentifierInputs /\ filters = Null /\ keywords = Null
          /\ column_names = Null

pool_vars == <<max_connections, pool, active_connections, lock, connection_times, pc,
               connection, discarded, conn_status, conn_id, conn_age, conn_probes,
               admin_pc, ca_clean, closed_now, raised, in_flight, stats_counter,
               stats>>

\* QueryBuilder().build_filter_clause(filters, column_names), lambda_function.py
BuildFilterClause ==
    /\ called = "none"
    /\ builder = "lambda_function"
    /\ called' = "build_filter_clause"
    /\ clause' = build_filter_clause(filters, column_names)
    /\ conditions' = IF filter_raises(filters, column_names) THEN <<>>
                     ELSE filter_conditions(filters, column_names)
    /\ returned' = TRUE
    /\ UNCHANGED <<builder, filters, keywords, column_names, identifier_arg, pool_vars,
                   service_vars, singleton_vars>>

\* QueryBuilder().build_search_clause(keywords, column_names), lambda_function.py
BuildSearchClause ==
    /\ called = "none"
    /\ builder = "lambda_function"
    /\ called' = "build_search_clause"
    /\ clause' = build_search_clause(keywords, column_names)
    /\ conditions' = search_conditions(keywords, column_names)
    /\ returned' = TRUE
    /\ UNCHANGED <<builder, filters, keywords, column_names, identifier_arg, pool_vars,
                   service_vars, singleton_vars>>

\* QueryBuilder().build_filter_clause(filters, column_names), snowflake.py
SnowflakeBuildFilterClause ==
    /\ called = "none"
    /\ builder = "snowflake"
    /\ called' = "build_filter_clause"
    /\ clause' = snowflake_build_filter_clause(filters, column_names)
    /\ conditions' = IF filter_raises(filters, column_names) THEN <<>>
                     ELSE snowflake_filter_conditions(filters, column_names)
    /\ returned' = TRUE
    /\ UNCHANGED <<builder, filters, keywords, column_names, identifier_arg, pool_vars,
                   service_vars, singleton_vars>>

\* QueryBuilder().build_search_clause(keywords, column_names), snowflake.py
SnowflakeBuildSearchClause ==
    /\ called = "none"
    /\ builder = "snowflake"
    /\ called' = "build_search_clause"
    /\ clause' = snowflake_build_search_clause(keywords, column_names)
    /\ conditions' = snowflake_search_conditions(keywords, column_names)
    /\ returned' = TRUE
    /\ UNCHANGED <<builder, filters, keywords, column_names, identifier_arg, pool_vars,
                   service_vars, singleton_vars>>

\* QueryBuilder().quote_identifier(identifier): the method reads the same in the two
\* modules
QuoteIdentifier ==
    /\ called = "none"
    /\ identifier_arg # Null
    /\ called' = "quote_identifier"
    /\ clause' = IF is_str(identifier_arg) THEN Str(quote_identifier(identifier_arg.v))
                 ELSE AttributeError
    /\ returned' = TRUE
    /\ UNCHANGED <<builder, filters, keywords, column_names, identifier_arg, conditions,
                   pool_vars, service_vars, singleton_vars>>

\* query_builder.quote_identifier(...) applied to what the first call returned
QuoteIdentifierAgain ==
    /\ called = "quote_identifier"
    /\ is_str(clause)
    /\ called' = "quote_identifier_again"
    /\ clause' = Str(quote_identifier(clause.v))
    /\ UNCHANGED <<builder, filters, keywords, column_names, identifier_arg, conditions,
                   returned, pool_vars, service_vars, singleton_vars>>

\* A call of a method of either QueryBuilder.
NextQuery ==
    \/ BuildFilterClause
    \/ BuildSearchClause
    \/ SnowflakeBuildFilterClause
    \/ SnowflakeBuildSearchClause
    \/ QuoteIdentifier
    \/ QuoteIdentifierAgain

SpecQuery == InitQuery /\ [][NextQuery]_vars

\* ============================================================ list request
\* SnowflakeService.get_opportunities / get_budget: a metadata query, a COUNT(*)
\* query and a paginated data query, each through self.execute_query.
MaxPage == 2
MaxPageSize == 2
MaxRows == 3
MaxColumns == 1

\* The list methods: the SnowflakeService of lambda_function.py has both, the one of
\* snowflake.py has get_opportunities.
Requests ==
    {[module |-> "lambda_function", method |-> "get_opportunities",
      table |-> "opportunities"],
     [module |-> "lambda_function", method |-> "get_budget", table |-> "budget"],
     [module |-> "snowflake", method |-> "get_opportunities", table |-> "opportunities"]}

\* str(e) of what the connector raises when a query fails at the warehouse.
WarehouseErrors == {"timeout", "denied"}

\* self.execute_query(query): `conn = self.connect()` opens a connection of its own,
\* the query runs on it and `finally: conn.close()` closes it, whether the query
\* failed or not.  The pool is not asked.
execute_query(query, ok) ==
    [query |-> query, connection |-> "self.connect()", afterwards |-> "conn.close()",
     ok |-> ok]

\* The rows `LIMIT page_size OFFSET (page - 1) * page_size` selects out of `rows`.
page_rows(rows, p, size) ==
    LET offset == (p - 1) * size
    IN  IF rows - offset <= 0 THEN 0
        ELSE IF rows - offset < size THEN rows - offset ELSE size

\* The pool is constructed and left alone; one list request is about to be made.
InitList ==
    /\ max_connections = MaxPoolSize
    /\ pool = <<>>
    /\ active_connections = 0
    /\ lock = None
    /\ connection_times = [c \in Conns |-> NoTime]
    /\ pc = [t \in Threads |-> "idle"]
    /\ connection = [t \in Threads |-> None]
    /\ discarded = [t \in Threads |-> FALSE]
    /\ conn_status = [c \in Conns |-> "unborn"]
    /\ conn_id = [c \in Conns |-> 0]
    /\ conn_age = [c \in Conns |-> NoTime]
    /\ conn_probes = [c \in Conns |-> 0]
    /\ admin_pc = "idle"
    /\ ca_clean = FALSE
    /\ closed_now = {}
    /\ raised = "none"
    /\ in_flight = [t \in Threads |-> "none"]
    /\ stats_counter = <<>>
    /\ stats = NoStats
    /\ NoQuery
    /\ NoSingleton
    /\ request \in Requests
    /\ page \in 1..MaxPage
    /\ page_size \in 1..MaxPageSize
    /\ table_columns \in 0..MaxColumns
    /\ table_rows \in 0..MaxRows
    /\ at = "metadata"
    /\ executed = <<>>
    /\ compiled = FALSE
    /\ result = Null

\* An empty catalog that lets the request go on to the clauses and the count query
\* (C27 is checked against it).
MetadataNoColumnsGoesOn ==
    /\ at = "metadata"
    /\ table_columns = 0
    /\ executed' = Append(executed, execute_query("metadata", TRUE))
    /\ compiled' = TRUE
    /\ at' = "count"
    /\ UNCHANGED <<request, page, page_size, table_columns, table_rows, result, pool_vars,
                   query_vars, singleton_vars>>
\* The metadata query returns no column: the request returns at once, with a message.
MetadataNoColumns ==
    /\ at = "metadata"
    /\ table_columns = 0
    /\ executed' = Append(executed, execute_query("metadata", TRUE))
    /\ result' = [data |-> 0, total_count |-> 0,
                  message |-> <<"No columns found in ", request.table, " table">>]
    /\ at' = "returned"
    /\ UNCHANGED <<request, page, page_size, table_columns, table_rows, compiled,
                   pool_vars, query_vars, singleton_vars>>

\* The metadata query returns columns: the filter and search clauses are built.
MetadataColumns ==
    /\ at = "metadata"
    /\ table_columns > 0
    /\ executed' = Append(executed, execute_query("metadata", TRUE))
    /\ compiled' = TRUE
    /\ at' = "count"
    /\ UNCHANGED <<request, page, page_size, table_columns, table_rows, result, pool_vars,
                   query_vars, singleton_vars>>

\* The COUNT(*) query returns its one row.
CountQuery ==
    /\ at = "count"
    /\ executed' = Append(executed, execute_query("count", TRUE))
    /\ at' = "data"
    /\ UNCHANGED <<request, page, page_size, table_columns, table_rows, compiled, result,
                   pool_vars, query_vars, singleton_vars>>

\* The data query returns the rows of the page, and the request returns.
DataQuery ==
    /\ at = "data"
    /\ executed' = Append(executed, execute_query("data", TRUE))
    /\ result' = [data |-> page_rows(table_rows, page, page_size),
                  total_count |-> table_rows, page |-> page, page_size |-> page_size]
    /\ at' = "returned"
    /\ UNCHANGED <<request, page, page_size, table_columns, table_rows, compiled,
                   pool_vars, query_vars, singleton_vars>>

\* lambda_function.py: the query the request is at raises, `except Exception as e`
\* logs it and returns a dictionary.
QueryFailsReturned ==
    /\ request.module = "lambda_function"
    /\ at \in {"metadata", "count", "data"}
    /\ \E e \in WarehouseErrors :
           /\ executed' = Append(executed, execute_query(at, FALSE))
           /\ result' = [data |-> 0, total_count |-> 0,
                         message |-> <<"Error accessing ", request.table, " table: ", e>>]
    /\ at' = "returned"
    /\ UNCHANGED <<request, page, page_size, table_columns, table_rows, compiled,
                   pool_vars, query_vars, singleton_vars>>

\* snowflake.py: the query the request is at raises, `except Exception as e` logs it
\* and raises it again.
QueryFailsRaised ==
    /\ request.module = "snowflake"
    /\ at \in {"metadata", "count", "data"}
    /\ \E e \in WarehouseErrors :
           /\ executed' = Append(executed, execute_query(at, FALSE))
           /\ result' = [raise |-> e]
    /\ at' = "returned"
    /\ UNCHANGED <<request, page, page_size, table_columns, table_rows, compiled,
                   pool_vars, query_vars, singleton_vars>>

NextList ==
    \/ MetadataNoColumns
    \/ MetadataColumns
    \/ CountQuery
    \/ DataQuery
    \/ QueryFailsReturned
    \/ QueryFailsRaised

SpecList == InitList /\ [][NextList]_vars

\* ======================================================= module-level pool
\* get_connection_pool / close_connection_pool and the global _connection_pool.
\* Instances are numbered in the order of their construction; None is no instance.
MaxInstances == 3

\* The pool of the specifications above is left alone; no call has been made.
InitSingleton ==
    /\ max_connections = MaxPoolSize
    /\ pool = <<>>
    /\ active_connections = 0
    /\ lock = None
    /\ connection_times = [c \in Conns |-> NoTime]
    /\ pc = [t \in Threads |-> "idle"]
    /\ connection = [t \in Threads |-> None]
    /\ discarded = [t \in Threads |-> FALSE]
    /\ conn_status = [c \in Conns |-> "unborn"]
    /\ conn_id = [c \in Conns |-> 0]
    /\ conn_age = [c \in Conns |-> NoTime]
    /\ conn_probes = [c \in Conns |-> 0]
    /\ admin_pc = "idle"
    /\ ca_clean = FALSE
    /\ closed_now = {}
    /\ raised = "none"
    /\ in_flight = [t \in Threads |-> "none"]
    /\ stats_counter = <<>>
    /\ stats = NoStats
    /\ NoQuery
    /\ NoRequest
    /\ NoSingleton

\* `if _connection_pool is None:` finds the global unset.
GetPoolSeesNone(t) ==
    /\ gp_pc[t] = "idle"
    /\ connection_pool = None
    /\ gp_pc' = [gp_pc EXCEPT ![t] = "create"]
    /\ UNCHANGED <<connection_pool, instances, gp_returned, gp_raised, torn_down,
                   pool_vars, query_vars, service_vars>>

\* `if _connection_pool is None:` finds the global set.
GetPoolSeesPool(t) ==
    /\ gp_pc[t] = "idle"
    /\ connection_pool # None
    /\ gp_pc' = [gp_pc EXCEPT ![t] = "return"]
    /\ UNCHANGED <<connection_pool, instances, gp_returned, gp_raised, torn_down,
                   pool_vars, query_vars, service_vars>>

\* `_connection_pool = SnowflakeConnectionPool(...)`: a new instance is constructed
\* and stored in the global, whatever the global holds by now.
GetPoolCreate(t) ==
    /\ gp_pc[t] = "create"
    /\ instances < MaxInstances
    /\ instances' = instances + 1
    /\ connection_pool' = instances + 1
    /\ gp_pc' = [gp_pc EXCEPT ![t] = "return"]
    /\ UNCHANGED <<gp_returned, gp_raised, torn_down, pool_vars, query_vars,
                   service_vars>>

\* `return _connection_pool`: the global is read again and returned.
GetPoolReturn(t) ==
    /\ gp_pc[t] = "return"
    /\ gp_returned' = [gp_returned EXCEPT ![t] = @ \cup {connection_pool}]
    /\ gp_pc' = [gp_pc EXCEPT ![t] = "idle"]
    /\ UNCHANGED <<connection_pool, instances, gp_raised, torn_down, pool_vars,
                   query_vars, service_vars>>

\* close_connection_pool reads the global three times without a lock, and every
\* caller of either function may run between two of the reads.
\* `if _connection_pool is not None:` finds the global unset (the call returns) or
\* set (the call goes on to the next line).
ClosePoolTest(t) ==
    /\ gp_pc[t] = "idle"
    /\ gp_pc' = [gp_pc EXCEPT ![t] = IF connection_pool = None THEN "idle"
                                                               ELSE "close_all"]
    /\ gp_raised' = [gp_raised EXCEPT ![t] = "none"]
    /\ UNCHANGED <<connection_pool, instances, gp_returned, torn_down, pool_vars,
                   query_vars, service_vars>>

\* `_connection_pool.close_all()`: the global is read again and close_all is applied
\* to the instance it holds by now.
ClosePoolCloseAll(t) ==
    /\ gp_pc[t] = "close_all"
    /\ connection_pool # None
    /\ torn_down' = torn_down \cup {connection_pool}
    /\ gp_pc' = [gp_pc EXCEPT ![t] = "unset"]
    /\ UNCHANGED <<connection_pool, instances, gp_returned, gp_raised, pool_vars,
                   query_vars, service_vars>>

\* `_connection_pool.close_all()` when another teardown has unset the global since the
\* test: None has no close_all, the call ends with AttributeError.
ClosePoolRaises(t) ==
    /\ gp_pc[t] = "close_all"
    /\ connection_pool = None
    /\ gp_raised' = [gp_raised EXCEPT ![t] = "AttributeError"]
    /\ gp_pc' = [gp_pc EXCEPT ![t] = "idle"]
    /\ UNCHANGED <<connection_pool, instances, gp_returned, torn_down, pool_vars,
                   query_vars, service_vars>>

\* `_connection_pool = None`: the global is unset, whatever it holds by now.  The
\* teardown is over; what the callers of get_connection_pool were returned before it
\* is forgotten.
ClosePoolUnset(t) ==
    /\ gp_pc[t] = "unset"
    /\ connection_pool' = None
    /\ gp_returned' = [u \in Threads |-> {}]
    /\ gp_pc' = [gp_pc EXCEPT ![t] = "idle"]
    /\ UNCHANGED <<instances, gp_raised, torn_down, pool_vars, query_vars,
                   service_vars>>

NextSingleton ==
    \/ \E t \in Threads : GetPoolSeesNone(t)
    \/ \E t \in Threads : GetPoolSeesPool(t)
    \/ \E t \in Threads : GetPoolCreate(t)
    \/ \E t \in Threads : GetPoolReturn(t)
    \/ \E t \in Threads : ClosePoolTest(t)
    \/ \E t \in Threads : ClosePoolCloseAll(t)
    \/ \E t \in Threads : ClosePoolRaises(t)
    \/ \E t \in Threads : ClosePoolUnset(t)

SpecSingleton == InitSingleton /\ [][NextSingleton]_vars

\* ================================================================== claims
\* C1.  Used through acquire and release alone (close_all never called), the pool
\* never has more than max_connections connections lent to callers at one time.
C1_LentWithinMax == Cardinality(Borrowers) <= max_connections

\* The limit is met: max_connections callers hold a connection and one more caller
\* is blocked waiting for one.
C1_Witness ==
    /\ Cardinality(Borrowers) = max_connections
    /\ \E t \in Threads : pc[t] = "wait"

\* C2.  The release step runs when the with-block is left, normally or by an
\* exception; when it has run, the connection is back on the idle queue or close()
\* was called on it, and from the exit on it is not lent to anyone.
C2_ReleasedOnExit ==
    [][\A t \in Threads :
          /\ (pc[t] = "body" /\ pc'[t] # "body") => connection[t] \notin Lent'
          /\ (in_flight[t] = "none" /\ pc[t] # "rel_lock" /\ pc'[t] = "rel_lock") =>
                connection[t] \in closed_now'
          /\ (in_flight[t] = "none" /\ pc[t] = "put" /\ pc'[t] # "put") =>
                /\ pc'[t] = "idle"
                /\ connection[t] \in Range(pool')
                /\ connection[t] \notin Lent']_vars

\* C3.  A connection is lent to at most one caller at a time, and a lent connection
\* is not on the idle queue.
C3_ExclusiveLending ==
    /\ \A t \in Borrowers : \A u \in Borrowers : t # u => connection[t] # connection[u]
    /\ Lent \cap Range(pool) = {}

\* A caller holds a connection while another connection is on the idle queue.
C3_Witness ==
    /\ Borrowers # {}
    /\ pool # <<>>

\* C4.  After any interleaving of acquire/release pairs, the size of the idle queue
\* plus the number of lent connections is the number of connections created and not
\* yet closed, and _active_connections is that number too.
C4_Accounting ==
    Quiescent =>
       /\ Len(pool) + Cardinality(Lent) = Cardinality(OpenConns)
       /\ active_connections = Cardinality(OpenConns)

\* C5.  After any sequence of acquires, releases and close_all calls, the connection
\* get_connection yields is not older than max_idle_time when it is handed out.
C5_NoExpiredHandout ==
    [][\A t \in Threads :
          (pc[t] # "body" /\ pc'[t] = "body") =>
             conn_age'[connection'[t]] <= max_idle_time]_vars

\* C6.  A get_connection that dequeued an idle connection failing validation does
\* not surface a failure for it: whatever the counter, the call never ends with the
\* pool-exhausted error.
C6_DiscardNotSurfaced ==
    [][\A t \in Threads :
          (discarded[t] /\ pc[t] # "idle" /\ pc'[t] = "idle") =>
             raised' # "exhausted"]_vars

\* C7.  Release of a lent connection: one that fails validation is closed, is not
\* put on the idle queue, and the counter goes down by exactly one; one that passes
\* is put on the idle queue and the counter is unchanged.
C7_ReleaseBranches ==
    [][\A t \in Threads :
          in_flight[t] = "none" =>
             /\ (ValidationEnds(t, {"body", "finally"}, "finally_age")
                 /\ pc'[t] # pc[t]) =>
                   IF ValidAt(t, "finally_age")
                   THEN /\ pc'[t] = "put"
                        /\ connection[t] \notin closed_now'
                        /\ active_connections' = active_connections
                   ELSE /\ pc'[t] = "rel_lock"
                        /\ connection[t] \in closed_now'
                        /\ connection[t] \notin Range(pool')
                        /\ connection'[t] = connection[t]
             /\ (pc[t] = "put" /\ pc'[t] # "put") =>
                   /\ connection[t] \in Range(pool')
                   /\ active_connections' = active_connections
             /\ (pc[t] = "rel_lock" /\ pc'[t] # "rel_lock") =>
                   /\ active_connections' = active_connections - 1
                   /\ connection[t] \notin Range(pool')]_vars

\* C8.  A caller waiting on a saturated pool whose idle queue stays empty for the
\* whole wait gets the pool-exhausted error and no connection; the counter (equal to
\* max_connections) and the idle queue are left as they were.
C8_ExhaustedLeavesPoolAlone ==
    [][\A t \in Threads :
          (pc[t] = "wait" /\ pool = <<>> /\ pc'[t] # "wait") =>
             /\ active_connections = max_connections
             /\ raised' = "exhausted"
             /\ pc'[t] = "idle"
             /\ connection'[t] = None
             /\ active_connections' = active_connections
             /\ pool' = pool]_vars

\* The pool-exhausted error has just been raised on a saturated pool.
C8_Witness ==
    /\ raised = "exhausted"
    /\ active_connections = max_connections
    /\ pool = <<>>

\* C9.  Only an acquire on a saturated pool suspends its caller: a release step
\* that has to take the lock, and close_all, never find the lock held by another
\* thread, and get_stats can always take its next step.
C9_OnlyAcquireSuspends ==
    /\ \A t \in Threads : pc[t] = "rel_lock" => lock = None
    /\ admin_pc = "ca_lock" => lock = None
    /\ ENABLED (GetStatsReadCounter \/ GetStats)

\* C10.  close_all with no concurrent pool operation: each turn of its loop takes
\* the head of the idle queue and calls close() on it, the loop ends only on an
\* empty queue, also when some of these calls raise, and nothing else changes the
\* queue; when close_all returns the queue is empty and the counter is zero; the
\* lent connections are still lent and have not been closed.
C10_CloseAllUndisturbed ==
    [][/\ (admin_pc = "drain" /\ ca_clean' /\ (pool' # pool \/ admin_pc' # admin_pc)) =>
             /\ pool # <<>> =>
                   /\ closed_now' = {Head(pool)}
                   /\ pool' = Tail(pool)
                   /\ admin_pc' = "drain"
             /\ pool = <<>> => (admin_pc' = "ca_lock" /\ pool' = <<>>)
             /\ Lent' = Lent
             /\ \A c \in Lent : c \notin closed_now' /\ conn_status'[c] = conn_status[c]
       /\ (admin_pc = "ca_lock" /\ admin_pc' = "idle" /\ ca_clean') =>
             /\ pool' = <<>>
             /\ active_connections' = 0
             /\ Lent' = Lent
             /\ \A c \in Lent : conn_status'[c] = conn_status[c] /\ c \in OpenConns]_vars

\* close_all has just returned undisturbed while a caller holds a connection.
C10_Witness ==
    /\ admin_pc = "idle"
    /\ ca_clean
    /\ active_connections = 0
    /\ pool = <<>>
    /\ Lent # {}

\* C11.  get_stats changes nothing (idle queue, counter, creation times, the
\* connections, the threads), and what it returns is a snapshot: max_connections,
\* the counter, the size of the idle queue and max_idle_time as they are when it
\* returns.
C11_GetStatsSnapshot ==
    [][stats_counter' # stats_counter =>
          /\ UNCHANGED <<max_connections, pool, active_connections, lock,
                         connection_times, conn_status, conn_id, conn_age, pc,
                         connection>>
          /\ stats_counter' = <<>> =>
                stats' = [max_connections |-> max_connections,
                          active_connections |-> active_connections,
                          pooled_connections |-> Len(pool),
                          max_idle_time |-> max_idle_time]]_vars

\* C12.  The SELECT 1 round trip runs on a fraction of the validations of a
\* connection only, so never on two validations of it in a row that pass the cheap
\* checks, and never after the age check or the closed check failed.
C12_ProbeOnlySometimes ==
    [][\A c \in Conns :
          conn_probes'[c] > conn_probes[c] =>
             /\ ~Expired(c)
             /\ ~is_closed(conn_status[c])
             /\ conn_probes'[c] < 2]_vars

\* The texts of a list of conditions.
Texts(conds) == [i \in 1..Len(conds) |-> conds[i].text]

\* The stages of build_filter_clause as the builder that was called has them: the
\* stages for the filters with a name of their own (snowflake.py alone), the list
\* stage and the exact-value stage.
NamedStages ==
    IF builder = "snowflake"
    THEN contract_type_stage(filters) \o has_execution_data_stage(filters)
         \o award_amount_stage(filters) \o text_filter_stage(filters)
         \o award_date_stage(filters)
    ELSE <<>>
ListStage ==
    IF builder = "snowflake" THEN snowflake_list_stage(filters.v, column_names)
    ELSE list_stage(filters.v, column_names)
ExactStage ==
    IF builder = "snowflake" THEN snowflake_exact_stage(filters, column_names)
    ELSE exact_stage(filters, column_names)

\* C13: every column identifier in the output of build_filter_clause or
\* build_search_clause is a member of the catalog the call was given, an empty or
\* absent catalog included (it has no members).
C13_CatalogOnly ==
    returned =>
        \A i \in 1..Len(conditions) : \A j \in 1..Len(conditions[i].cols) :
            /\ column_names.t = "list"
            /\ \E n \in 1..Len(column_names.v) :
                   column_names.v[n].v = conditions[i].cols[j]

\* C14: every caller-supplied value that build_filter_clause or build_search_clause
\* interpolates (range bound, list member, exact value, pattern operand, search term)
\* appears in the output as its text with each single quote doubled.
C14_ValuesEscaped ==
    returned =>
        \A i \in 1..Len(conditions) : \A j \in 1..Len(conditions[i].vals) :
            conditions[i].vals[j].shown = replace_quote(py_str(conditions[i].vals[j].raw))

\* C15: the text build_filter_clause puts between conditions, at the top level and
\* inside the data-availability group, is ' AND ' or ' OR ', and it is ' AND ' when
\* the filters have no "operator" key.
C15_JoinerAndOr ==
    (called = "build_filter_clause" /\ clause.t = "str") =>
        LET group == IF is_dict(filters) /\ truthy(filters)
                     THEN data_avail_stage(filters, column_names)
                     ELSE <<>>
            inside(sep) ==
                SqlText.OPEN \o Join(sep, [j \in 1..Len(group[1].cols) |->
                                      data_avail_text(group[1].cols[j])]) \o SqlText.CLOSE
            joined(sep) ==
                /\ clause.v = Join(sep, Texts(conditions))
                /\ Len(group) > 0 =>
                       \E i \in 1..Len(conditions) : conditions[i].text = inside(sep)
        IN  /\ joined(SqlText.AND_) \/ joined(SqlText.OR_)
            /\ (is_dict(filters) /\ ~has_key(filters, Key.operator)) => joined(SqlText.AND_)

\* C16: build_filter_clause and build_search_clause are total: whatever the JSON
\* types of filters, of its values and of keywords, and whatever the catalog, the
\* call returns a string and raises nothing.
C16_Total == returned => clause.t = "str"

\* C17: the search clause is the AND of one clause per retained term (a term that
\* is neither empty nor a bare '-'): for a term without leading '-' the
\* parenthesized OR of `col ILIKE '%term%'` over the searchable columns of the
\* catalog, for a term with leading '-' the AND of `col NOT ILIKE '%term%'` over
\* them; with no searchable column the clause is empty.
C17_SearchClauseShape ==
    (called = "build_search_clause" /\ clause.t = "str" /\ is_str(keywords)) =>
        LET cols == IF is_list(column_names) THEN text_columns(column_names) ELSE <<>>
            retained == SelectSeq(search_terms(keywords.v), LAMBDA term : term # <<"-">>)
            like(col, word, term) ==
                <<"\"">> \o col \o <<"\"">> \o word \o <<"'", "%">> \o replace_quote(term)
                \o <<"%", "'">>
            of_term(term) ==
                IF Head(term) = "-"
                THEN Join(SqlText.AND_, [i \in 1..Len(cols) |-> like(cols[i],
                        SqlText.NOT_ILIKE, Tail(term))])
                ELSE <<"(">>
                    \o Join(SqlText.OR_, [i \in 1..Len(cols) |-> like(cols[i], SqlText.ILIKE, term)])
                     \o <<")">>
        IN  clause.v = IF cols = <<>> THEN <<>>
                       ELSE Join(SqlText.AND_,
                               [i \in 1..Len(retained) |-> of_term(retained[i])])

\* C18: the columns build_search_clause searches are the catalog columns whose
\* lowercased name is not 'id', does not end with 'id' while longer than 2, and
\* contains none of 'date', 'time', 'timestamp', 'created', 'updated', 'modified';
\* when no column remains the call returns the empty string.
C18_SearchableColumns ==
    (called = "build_search_clause" /\ clause.t = "str") =>
        LET names == IF is_list(column_names)
                     THEN [i \in 1..Len(column_names.v) |-> column_names.v[i].v]
                     ELSE <<>>
            words == {<<"d", "a", "t", "e">>, <<"t", "i", "m", "e">>,
                      <<"t", "i", "m", "e", "s", "t", "a", "m", "p">>,
                      <<"c", "r", "e", "a", "t", "e", "d">>,
                      <<"u", "p", "d", "a", "t", "e", "d">>,
                      <<"m", "o", "d", "i", "f", "i", "e", "d">>}
            excluded(name) ==
                \/ lower(name) = <<"i", "d">>
                \/ (endswith(lower(name), <<"i", "d">>) /\ Len(name) > 2)
                \/ \E w \in words : contains(lower(name), w)
            remaining == SelectSeq(names, LAMBDA name : ~excluded(name))
        IN  /\ \A i \in 1..Len(conditions) : conditions[i].cols = remaining
            /\ remaining = <<>> => clause.v = <<>>

\* C19: with a non-empty catalog, the conditions of the range stage are, in the
\* order of the keys, `"base" >= v` for each key base+'Min' and `"base" <= v` for
\* each key base+'Max' whose base is in the catalog, one per such key and none for
\* any other key; they come before the conditions of the later stages (and, in
\* snowflake.py, after those of the filters with a name of their own).
C19_RangeStage ==
    (called = "build_filter_clause" /\ clause.t = "str" /\ is_dict(filters)
     /\ truthy(filters) /\ truthy(column_names)) =>
        LET in_catalog(base) ==
                \E n \in 1..Len(column_names.v) : column_names.v[n] = Str(base)
            bound(base, cmp, v) == <<"\"">> \o base \o <<"\"">> \o cmp \o py_str(v)
            of_pair(p) ==
                IF Len(p.k) >= 3 /\ in_catalog(SubSeq(p.k, 1, Len(p.k) - 3))
                THEN (IF SubSeq(p.k, Len(p.k) - 2, Len(p.k)) = <<"M", "i", "n">>
                      THEN <<bound(SubSeq(p.k, 1, Len(p.k) - 3), <<" ", ">", "=", " ">>, p.val)>>
                      ELSE IF SubSeq(p.k, Len(p.k) - 2, Len(p.k)) = <<"M", "a", "x">>
                      THEN <<bound(SubSeq(p.k, 1, Len(p.k) - 3), <<" ", "<", "=", " ">>, p.val)>>
                      ELSE <<>>)
                ELSE <<>>
            expected == Concat([i \in 1..Len(filters.v) |-> of_pair(filters.v[i])])
            later == ListStage \o data_avail_stage(filters, column_names) \o ExactStage
        IN  Texts(conditions) = Texts(NamedStages) \o expected \o Texts(later)

\* {"AMOUNT_KMin": 100} over the catalog [AMOUNT_K] has returned "AMOUNT_K" >= 100.
C19_Witness ==
    /\ called = "build_filter_clause"
    /\ filters = Dict(<<Pair(<<"A", "M", "O", "U", "N", "T", "_", "K", "M", "i", "n">>,
                             Num(100))>>)
    /\ column_names = List(<<Str(<<"A", "M", "O", "U", "N", "T", "_", "K">>)>>)
    /\ clause = Str(<<"\"", "A", "M", "O", "U", "N", "T", "_", "K", "\"", " ", ">", "=", " ",
                      "1", "0", "0">>)

\* C20: with a non-empty catalog, the conditions of the membership stage are, in the
\* order of the keys, `"key" IN ('v1','v2',...)` for each key that is in the catalog
\* and has a non-empty list as its value, the values in their order and each in
\* single quotes; a key with an empty list, or not in the catalog, gives none.
C20_MembershipStage ==
    (called = "build_filter_clause" /\ clause.t = "str" /\ is_dict(filters)
     /\ truthy(filters) /\ truthy(column_names)) =>
        LET in_catalog(key) ==
                \E n \in 1..Len(column_names.v) : column_names.v[n] = Str(key)
            quoted(v) == <<"'">> \o replace_quote(py_str(v)) \o <<"'">>
            of_pair(p) ==
                IF p.val.t = "list" /\ p.val.v # <<>> /\ in_catalog(p.k)
                THEN << <<"\"">> \o p.k \o <<"\"", " ", "I", "N", " ", "(">>
                        \o Join(<<",">>, [i \in 1..Len(p.val.v) |-> quoted(p.val.v[i])])
                        \o <<")">> >>
                ELSE <<>>
            expected == Concat([i \in 1..Len(filters.v) |-> of_pair(filters.v[i])])
            before == NamedStages \o range_stage(filters.v, column_names)
            later == data_avail_stage(filters, column_names) \o ExactStage
        IN  Texts(conditions) = Texts(before) \o expected \o Texts(later)

\* The condition texts the exact-value rules give for the pairs under exact_values
\* whose column is in the (non-empty) catalog: a comparison operator gives `col op v`
\* with a number as it is and any other value in quotes; CONTAINS, STARTS_WITH and
\* ENDS_WITH give ILIKE with '%v%', 'v%', '%v'; IS_NULL and IS_NOT_NULL give
\* `col IS NULL` and `col IS NOT NULL`; any other operator gives nothing; a bare
\* non-empty list gives IN (...), a bare number `col = number`, any other bare value
\* (an empty list is one) `col = 'string'`.
ExactValueTexts ==
    LET in_catalog(col) ==
            \E n \in 1..Len(column_names.v) : column_names.v[n] = Str(col)
        q(col) == <<"\"">> \o col \o <<"\"">>
        quoted(v) == <<"'">> \o replace_quote(py_str(v)) \o <<"'">>
        plain(v) == IF is_number(v) THEN py_str(v) ELSE quoted(v)
        pattern(col, before, v, after) ==
            q(col) \o <<" ", "I", "L", "I", "K", "E", " ", "'">> \o before
            \o replace_quote(py_str(v)) \o after \o <<"'">>
        with_operator(col, op, v) ==
            IF op.t # "str" THEN <<>>
            ELSE IF op.v \in {<<"=">>, <<"!", "=">>, <<">">>, <<"<">>, <<">", "=">>, <<"<", "=">>}
            THEN <<q(col) \o <<" ">> \o op.v \o <<" ">> \o plain(v)>>
            ELSE IF op.v = <<"C", "O", "N", "T", "A", "I", "N", "S">>
            THEN <<pattern(col, <<"%">>, v, <<"%">>)>>
            ELSE IF op.v = <<"S", "T", "A", "R", "T", "S", "_", "W", "I", "T", "H">>
            THEN <<pattern(col, <<>>, v, <<"%">>)>>
            ELSE IF op.v = <<"E", "N", "D", "S", "_", "W", "I", "T", "H">>
            THEN <<pattern(col, <<"%">>, v, <<>>)>>
            ELSE IF op.v = <<"I", "S", "_", "N", "U", "L", "L">>
            THEN <<q(col) \o <<" ", "I", "S", " ", "N", "U", "L", "L">>>>
            ELSE IF op.v = <<"I", "S", "_", "N", "O", "T", "_", "N", "U", "L", "L">>
            THEN <<q(col) \o <<" ", "I", "S", " ", "N", "O", "T", " ", "N", "U", "L", "L">>>>
            ELSE <<>>
        bare(col, v) ==
            IF v.t = "list" /\ v.v # <<>>
            THEN <<q(col) \o <<" ", "I", "N", " ", "(">>
                   \o Join(<<",">>, [i \in 1..Len(v.v) |-> quoted(v.v[i])]) \o <<")">>>>
            ELSE <<q(col) \o <<" ", "=", " ">> \o plain(v)>>
        of_pair(p) ==
            IF ~in_catalog(p.k) THEN <<>>
            ELSE IF p.val.t = "dict" /\ has_key(p.val, Key.operator)
            THEN with_operator(p.k, get(p.val, Key.operator, Null), get(p.val, Key.value, Str(<<>>)))
            ELSE bare(p.k, p.val)
        under == get(filters, Key.exact_values, Null)
    IN  IF under.t = "dict"
        THEN Concat([i \in 1..Len(under.v) |-> of_pair(under.v[i])])
        ELSE <<>>

\* C21: with a non-empty catalog the conditions of the exact-value stage are those
\* of the rules, one per pair under exact_values whose column is in the catalog, in
\* the order of the pairs; they come after the conditions of the other stages.
C21_ExactStageAsStated ==
    (called = "build_filter_clause" /\ clause.t = "str" /\ is_dict(filters)
     /\ truthy(filters) /\ truthy(column_names)) =>
        LET before == NamedStages \o range_stage(filters.v, column_names) \o ListStage
                      \o data_avail_stage(filters, column_names)
        IN  Texts(conditions) = Texts(before) \o ExactValueTexts

\* C22: the data-availability stage emits, for the columns listed under
\* dataAvailability that are in the catalog, one group `(...)` holding
\* `col IS NOT NULL AND col <> ''` per column, joined by the operator of the
\* request; columns not in the catalog are left out and no group is emitted when
\* none remain.
C22_DataAvailabilityStage ==
    (called = "build_filter_clause" /\ returned /\ is_dict(filters) /\ truthy(filters)) =>
        LET in_catalog(col) ==
                /\ column_names.t = "list"
                /\ \E n \in 1..Len(column_names.v) : column_names.v[n].v = col
            listed == get(filters, Key.dataAvailability, Null)
            kept == IF listed.t = "list"
                    THEN SelectSeq(listed.v, LAMBDA c : c.t = "str" /\ in_catalog(c.v))
                    ELSE <<>>
            part(col) ==
                <<"\"">> \o col \o <<"\"", " ", "I", "S", " ", "N", "O", "T", " ", "N", "U",
                                     "L", "L", " ", "A", "N", "D", " ", "\"">> \o col
                \o <<"\"", " ", "<", ">", " ", "'", "'">>
            between == <<" ">> \o py_str(get(filters, Key.operator, Str(<<"A", "N", "D">>)))
                       \o <<" ">>
            group == IF kept = <<>> THEN <<>>
                     ELSE << <<"(">> \o Join(between, [i \in 1..Len(kept) |-> part(kept[i].v)])
                             \o <<")">> >>
            before == NamedStages \o range_stage(filters.v, column_names) \o ListStage
        IN  /\ clause.t = "str"
            /\ Texts(conditions) = Texts(before) \o group \o Texts(ExactStage)

\* C23: with "operator": "OR" the conditions of the filter keys are joined with
\* ' OR ', and the same filters with the keys in the opposite order give the same
\* set of conditions, joined with ' OR ' as well.
C23_OrderIndependent ==
    (called = "build_filter_clause" /\ clause.t = "str" /\ is_dict(filters)
     /\ get(filters, Key.operator, Null) = Str(<<"O", "R">>)) =>
        LET opposite == Dict([i \in 1..Len(filters.v) |-> filters.v[Len(filters.v) + 1 - i]])
            again == IF builder = "snowflake"
                     THEN snowflake_build_filter_clause(opposite, column_names)
                     ELSE build_filter_clause(opposite, column_names)
            others == IF builder = "snowflake"
                      THEN snowflake_filter_conditions(opposite, column_names)
                      ELSE filter_conditions(opposite, column_names)
        IN  /\ clause.v = Join(<<" ", "O", "R", " ">>, Texts(conditions))
            /\ again.t = "str"
            /\ again.v = Join(<<" ", "O", "R", " ">>, Texts(others))
            /\ Len(others) = Len(conditions)
            /\ {others[i].text : i \in 1..Len(others)}
                 = {conditions[i].text : i \in 1..Len(conditions)}

\* A call with "operator": "OR" and two more keys has returned two conditions
\* joined by ' OR ', and the opposite order of the keys gives them in another order.
C23_Witness ==
    /\ called = "build_filter_clause"
    /\ clause.t = "str"
    /\ is_dict(filters)
    /\ Len(filters.v) = 3
    /\ get(filters, Key.operator, Null) = Str(<<"O", "R">>)
    /\ truthy(column_names)
    /\ Len(conditions) = 2
    /\ clause.v = conditions[1].text \o <<" ", "O", "R", " ">> \o conditions[2].text
    /\ builder = "snowflake"
    /\ Texts(snowflake_filter_conditions(Dict([i \in 1..3 |-> filters.v[4 - i]]),
                                         column_names))
         = <<conditions[2].text, conditions[1].text>>

\* C24: quote_identifier is idempotent: applied to what it returned it returns the
\* same string; and a string that starts and ends with a double quote is returned
\* as it is.
C24_QuoteIdempotent ==
    [][/\ called' = "quote_identifier_again" => clause' = clause
       /\ (/\ called' = "quote_identifier" /\ is_str(identifier_arg)
           /\ identifier_arg.v # <<>>
           /\ Head(identifier_arg.v) = "\""
           /\ identifier_arg.v[Len(identifier_arg.v)] = "\"")
          => clause' = identifier_arg]_vars

\* quote_identifier was applied to A, gave "A", and was applied to that.
C24_Witness ==
    /\ called = "quote_identifier_again"
    /\ identifier_arg = Str(<<"A">>)
    /\ clause = Str(<<"\"", "A", "\"">>)

\* The queries of a list request run in the order metadata, count, data.
QueriesInOrder ==
    /\ Len(executed) <= 3
    /\ \A i \in 1..Len(executed) : executed[i].query = <<"metadata", "count", "data">>[i]

\* C25.  In one list request the queries run in the order metadata query, COUNT(*)
\* query, paginated data query, and the count query and the data query each run on a
\* connection acquired from the connection pool and released back to it afterwards.
C25_OrderedAndPooled ==
    /\ QueriesInOrder
    /\ \A i \in 1..Len(executed) :
           executed[i].query \in {"count", "data"}
               => /\ executed[i].connection = "pool.get_connection()"
                  /\ executed[i].afterwards = "release"

\* A query of the list request failed at the warehouse.
QueryFailed == \E i \in 1..Len(executed) : ~executed[i].ok

\* C26.  When the metadata, count or data query of a list request fails at the
\* warehouse, the caller is handed an error that carries the underlying message,
\* never a result with an empty data list and total_count 0.
C26_FailureIsAnError ==
    (at = "returned" /\ QueryFailed)
        => /\ \E e \in WarehouseErrors : result = [raise |-> e]
           /\ ~("data" \in DOMAIN result /\ result.data = 0 /\ result.total_count = 0)

\* C27.  When the metadata query returns no columns, the list request returns
\* data = [] and total_count = 0 with a diagnostic message, has run the metadata query
\* and no other, and has built no clause.
C27_NoColumnsNoQueries ==
    (table_columns = 0 /\ executed # <<>> /\ executed[1].ok)
        => /\ at = "returned"
           /\ result = [data |-> 0, total_count |-> 0,
                        message |-> <<"No columns found in ", request.table, " table">>]
           /\ executed = <<execute_query("metadata", TRUE)>>
           /\ ~compiled

\* A get_budget request has returned on an empty catalog.
C27_Witness ==
    /\ at = "returned"
    /\ request.method = "get_budget"
    /\ table_columns = 0
    /\ table_rows > 0
    /\ executed = <<execute_query("metadata", TRUE)>>
    /\ "message" \in DOMAIN result

\* C28.  When a borrower leaves its get_connection block while an acquirer is blocked
\* on the saturated pool, the blocked acquirer gets a connection (the released one,
\* or a replacement of an invalid one): a released connection that passed validation
\* is put in the idle queue it waits on, and its wait does not end with the
\* pool-exhausted error while the release of an invalid connection is under way.
C28_ExitServesBlockedAcquirer ==
    [][\A t, u \in Threads :
           /\ (pc[t] = "wait" /\ pc[u] = "put" /\ pc'[u] # "put") => pool' # <<>>
           /\ (pc[t] = "wait" /\ pc[u] = "rel_lock" /\ in_flight[u] = "none") =>
                  ~(pc'[t] = "idle" /\ raised' = "exhausted")]_vars

\* C29.  After every step, close_all while connections are lent and the releases
\* that follow it included: the counter is between 0 and max_connections, at most
\* max_connections connections are idle or lent, and the release of a connection
\* that passes validation puts it on the idle queue (the queue is never full).
C29_CounterAndQueueWithinMax ==
    [][/\ 0 <= active_connections'
       /\ active_connections' <= max_connections
       /\ Cardinality(Range(pool') \cup Lent') <= max_connections
       /\ \A t \in Threads :
              (pc[t] = "put" /\ pc'[t] # "put") => connection[t] \in Range(pool')]_vars

\* The instances returned by get_connection_pool since the latest teardown.
ReturnedPools == UNION {gp_returned[t] : t \in Threads}

\* C30.  Between teardowns there is at most one pool: all calls of
\* get_connection_pool, concurrent first calls included, return the same instance,
\* and every instance that is no longer the global one has had close_all applied.
C30_OnePoolBetweenTeardowns ==
    /\ Cardinality(ReturnedPools) <= 1
    /\ None \notin ReturnedPools
    /\ \A i \in 1..instances : i # connection_pool => i \in torn_down

====
